---- MODULE Spec2Model ----
(***************************************************************************)
(* A model of libset's keyed configuration store (src/src/lib.rs,          *)
(* src/src/utils.rs, src/src/error.rs), of its project registry            *)
(* (src/src/project.rs, src/src/file.rs, src/src/format.rs) and of its     *)
(* element tree and tree writer (src/src/config.rs, src/src/element.rs,    *)
(* src/src/utils/config/mod.rs, src/src/utils/conf/config.rs).             *)
(*                                                                         *)
(* Strings and paths are sequences of one-character strings, so that       *)
(* joining, splitting into components and formatting are computed the way  *)
(* the Rust standard library computes them.  The filesystem is a set of    *)
(* directories, a map from file paths to inodes and a map from inodes to   *)
(* contents; a resolved path is the sequence of its component names.       *)
(*                                                                         *)
(* Spec, SpecOpen and SpecContent run the calls one at a time; SpecConc    *)
(* runs get, get_plain, set and set_plain concurrently on one store, one   *)
(* system call per step.  SpecProject runs the calls of the project        *)
(* registry, each with the system call that can fail.  SpecTree builds a   *)
(* tree, then writes, clears and reads it; Config::write advances one      *)
(* Element::write per step.  SpecPairs runs the calls of one store on keys *)
(* whose file names meet; SpecFiles builds File descriptors, adds them to  *)
(* a project and finds them again; SpecBuild builds elements and adds them *)
(* to a Config; SpecAccess runs Config::get and Config::set on single      *)
(* files.                                                                  *)
(***************************************************************************)
EXTENDS Integers, Sequences, FiniteSets, TLC

VARIABLES
    configDir,  \* what dirs::config_dir() returns: None or Some(path)
    dirs,       \* the directories that exist (resolved paths)
    files,      \* resolved path -> inode of the regular file linked there
    inodes,     \* inode -> content (a sequence of tokens)
    stores,     \* the Config objects constructed so far (their `path` field)
    last,       \* the last call that returned, with its arguments and result
    written,    \* history: the (store, key, format) of every set that succeeded
    latest,     \* history: resolved path -> the last set that wrote the file there
    nCalls,     \* number of calls that changed the filesystem so far
    procs,      \* concurrent callers: position and locals of each
    dataDir,    \* what dirs::data_dir() and ProjectDirs::from find: None or Some(path)
    config,     \* the tree Config the application holds (src/src/config.rs), or None
    writer,     \* Config::write in progress: the calls of Element::write made (pc), the
                \* filesystem it started on (before), whether the tree was on disk (rerun)
    project,    \* the Project record the application holds (src/src/project.rs), or None
    history,    \* history: whether the tree was last written or cleared (phase), and
                \* whether a write has been called since (again)
    held        \* the File descriptor (src/src/file.rs) or the Element being built
                \* that the application holds, or None

vars == <<configDir, dirs, files, inodes, stores, last, written, latest, nCalls, procs,
          dataDir, config, writer, project, history, held>>

----------------------------------------------------------------------------
(* Bounds of the model.                                                    *)

\* Calls that change the filesystem (Config::new, set, set_plain) in one run.
MaxCalls == 3
\* Callers of one store that run concurrently.
MaxCallers == 2

----------------------------------------------------------------------------
(* Strings.                                                                *)

Slash == "/"
Dot == "."
DotDot == <<".", ".">>

\* The result of Option::None and of a call that has not happened.
None == [tag |-> "None"]
Some(x) == [tag |-> "Some", val |-> x]

\* str.split('/'): every segment between separators, empty ones included.
RECURSIVE SplitFrom(_, _, _)
SplitFrom(s, i, cur) ==
    IF i > Len(s) THEN <<cur>>
    ELSE IF s[i] = Slash THEN <<cur>> \o SplitFrom(s, i + 1, <<>>)
    ELSE SplitFrom(s, i + 1, Append(cur, s[i]))

Split(s) == SplitFrom(s, 1, <<>>)

\* Path::has_root / Path::is_absolute on Unix.
IsAbsolute(s) == Len(s) > 0 /\ s[1] = Slash

\* One component of std::path::Components.
Component(seg) ==
    IF seg = DotDot THEN [kind |-> "ParentDir", name |-> seg]
    ELSE [kind |-> "Normal", name |-> seg]

\* The components after the first position: empty segments (repeated or
\* trailing separators) and "." are normalised away.
RECURSIVE RestComponents(_)
RestComponents(segs) ==
    IF segs = <<>> THEN <<>>
    ELSE IF Head(segs) = <<>> \/ Head(segs) = <<Dot>> THEN RestComponents(Tail(segs))
    ELSE <<Component(Head(segs))>> \o RestComponents(Tail(segs))

\* Path::components(): RootDir for a leading separator, CurDir only for a
\* leading ".", ParentDir for "..", Normal otherwise.
Components(s) ==
    LET segs == Split(s) IN
    IF s = <<>> THEN <<>>
    ELSE IF IsAbsolute(s)
         THEN <<[kind |-> "RootDir", name |-> <<Slash>>]>> \o RestComponents(Tail(segs))
    ELSE IF Head(segs) = <<Dot>>
         THEN <<[kind |-> "CurDir", name |-> <<Dot>>]>> \o RestComponents(Tail(segs))
    ELSE RestComponents(segs)

\* PathBuf::push / Path::join: an absolute argument replaces the base,
\* otherwise a separator is added unless the base is empty or ends in one.
PathJoin(base, p) ==
    IF IsAbsolute(p) THEN p
    ELSE IF base = <<>> \/ base[Len(base)] = Slash THEN base \o p
    ELSE base \o <<Slash>> \o p

\* The text of a sequence of components, as Components::as_path gives it.
RECURSIVE ComponentsText(_)
ComponentsText(cs) ==
    IF cs = <<>> THEN <<>>
    ELSE IF Head(cs).kind = "RootDir" THEN <<Slash>> \o ComponentsText(Tail(cs))
    ELSE IF Len(cs) = 1 THEN Head(cs).name
    ELSE Head(cs).name \o <<Slash>> \o ComponentsText(Tail(cs))

\* Path::parent(): the path without its last component; None for a root or
\* an empty path.
PathParent(s) ==
    LET cs == Components(s) IN
    IF cs = <<>> \/ cs[Len(cs)].kind = "RootDir" THEN None
    ELSE Some(ComponentsText(SubSeq(cs, 1, Len(cs) - 1)))

\* u64's Display: the decimal digits.
Digit(d) == <<"0", "1", "2", "3", "4", "5", "6", "7", "8", "9">>[d + 1]

RECURSIVE FormatU64(_)
FormatU64(n) == IF n < 10 THEN <<Digit(n)>> ELSE FormatU64(n \div 10) \o <<Digit(n % 10)>>

----------------------------------------------------------------------------
(* Errors (src/src/error.rs) and results.                                  *)

\* Error::InvalidName(String)
InvalidName(name) == [tag |-> "Err", kind |-> "InvalidName", name |-> name]
\* Error::NoConfigDirectory
NoConfigDirectory == [tag |-> "Err", kind |-> "NoConfigDirectory"]
\* Error::Io(std::io::Error), through From<std::io::Error>
IoError(io) == [tag |-> "Err", kind |-> "Io", io |-> io]
\* Error::GetKey(String, std::io::Error)
GetKey(key, io) == [tag |-> "Err", kind |-> "GetKey", key |-> key, io |-> io]
\* Error::Write(atomicwrites::Error), through From<atomicwrites::Error>
WriteError(io) == [tag |-> "Err", kind |-> "Write", io |-> io]
\* Error::Json / Error::TomlSerialize / Error::TomlDeserialize / Error::RonSpanned
CodecError(kind) == [tag |-> "Err", kind |-> kind]
\* unreachable!(..): the call does not return, the thread panics.
Panic == [tag |-> "Panic"]

IsErr(r) == r.tag = "Err"
IsOk(r) == r.tag = "Ok"

----------------------------------------------------------------------------
(* FileType and sanitize_name (src/src/utils.rs).                          *)

FileType == {"Plain", "Toml", "Json", "Ron"}
TypedFormats == {"Toml", "Json", "Ron"}

\* impl Display for FileType
FileTypeDisplay(ft) ==
    CASE ft = "Toml" -> <<"t", "o", "m", "l">>
      [] ft = "Json" -> <<"j", "s", "o", "n">>
      [] ft = "Ron" -> <<"r", "o", "n">>
      [] ft = "Plain" -> <<>>

\* sanitize_name: Ok(path) when every component is Normal, else InvalidName.
sanitize_name(name) ==
    LET cs == Components(name) IN
    IF \A i \in 1..Len(cs) : cs[i].kind = "Normal"
    THEN [tag |-> "Ok", path |-> name]
    ELSE InvalidName(name)

----------------------------------------------------------------------------
(* The filesystem.                                                         *)

\* The names a path walks through: empty segments and "." name nothing.
RECURSIVE WalkNames(_)
WalkNames(segs) ==
    IF segs = <<>> THEN <<>>
    ELSE IF Head(segs) = <<>> \/ Head(segs) = <<Dot>> THEN WalkNames(Tail(segs))
    ELSE <<Head(segs)>> \o WalkNames(Tail(segs))

ParentOf(p) == IF p = <<>> THEN <<>> ELSE SubSeq(p, 1, Len(p) - 1)

\* Path resolution from directory cur: every directory walked through must
\* exist; ".." steps to the parent; the last name may name nothing.
RECURSIVE Walk(_, _, _, _)
Walk(ds, fs, cur, names) ==
    IF names = <<>> THEN [ok |-> TRUE, at |-> cur]
    ELSE IF cur \notin ds
         THEN [ok |-> FALSE, io |-> IF cur \in DOMAIN fs THEN "NotADirectory" ELSE "NotFound"]
    ELSE IF Head(names) = DotDot THEN Walk(ds, fs, ParentOf(cur), Tail(names))
    ELSE Walk(ds, fs, Append(cur, Head(names)), Tail(names))

\* A path that ends in a separator or in "." names a directory.
MustBeDir(s) ==
    /\ s # <<>>
    /\ \/ s[Len(s)] = Slash
       \/ LET segs == Split(s) IN segs[Len(segs)] = <<Dot>>

\* stat(2) of an absolute path in the filesystem (ds, fs).
StatIn(ds, fs, s) ==
    LET w == Walk(ds, fs, <<>>, WalkNames(Split(s))) IN
    IF ~w.ok THEN [kind |-> "err", io |-> w.io]
    ELSE IF w.at \in ds THEN [kind |-> "dir", at |-> w.at]
    ELSE IF w.at \in DOMAIN fs
         THEN IF MustBeDir(s) THEN [kind |-> "err", io |-> "NotADirectory"]
              ELSE [kind |-> "file", at |-> w.at]
    ELSE [kind |-> "none", at |-> w.at]

Stat(s) == StatIn(dirs, files, s)

\* The filesystem as one value: directories, directory entries of files,
\* and the content of every inode.
FS == [dirs |-> dirs, files |-> files, inodes |-> inodes]

\* Path::exists(): whether metadata() succeeds.
ExistsIn(fs, s) == StatIn(fs.dirs, fs.files, s).kind \in {"dir", "file"}
Exists(s) == ExistsIn(FS, s)

\* std::fs::read_to_string: the whole content of the file, or the I/O error.
ReadToStringIn(fs, s) ==
    LET st == StatIn(fs.dirs, fs.files, s) IN
    CASE st.kind = "file" -> [tag |-> "Ok", text |-> fs.inodes[fs.files[st.at]]]
      [] st.kind = "dir" -> [tag |-> "Err", io |-> "IsADirectory"]
      [] st.kind = "none" -> [tag |-> "Err", io |-> "NotFound"]
      [] st.kind = "err" -> [tag |-> "Err", io |-> st.io]
ReadToString(s) == ReadToStringIn(FS, s)

\* The directories std::fs::create_dir_all(s) needs: s and its ancestors.
DirChain(s) ==
    LET names == WalkNames(Split(s)) IN {SubSeq(names, 1, i) : i \in 0..Len(names)}

\* std::fs::create_dir_all: creates s and every missing ancestor, leaves
\* what exists in place, fails when a file is in the way.
CreateDirAll(s) ==
    IF \E d \in DirChain(s) : d \in DOMAIN files
    THEN [tag |-> "Err", io |-> "NotADirectory"]
    ELSE [tag |-> "Ok", dirs |-> dirs \cup DirChain(s)]

\* The inode of a file created for destination `at` by caller `by` in its
\* n-th call: inode numbers only have to tell apart the files that exist
\* at the same time.
Inode(at, by, n) == [at |-> at, by |-> by, n |-> n]

\* function f with x mapped to y, whether or not x is in its domain
Put(f, x, y) == [z \in DOMAIN f \cup {x} |-> IF z = x THEN y ELSE f[z]]
\* function f without x
Drop(f, x) == [z \in DOMAIN f \ {x} |-> f[z]]

----------------------------------------------------------------------------
(* The codecs the typed get and set dispatch to (src/src/lib.rs:313-321,   *)
(* 340-348).  A value is a struct with one string field, as Colors in the  *)
(* examples, or a bare integer; a text is a sequence of tokens (pretty     *)
(* printing's white space is left out).                                    *)

Struct(s) == [type |-> "struct", data |-> s]
Int7 == [type |-> "int", data |-> "7"]

Quote == "\""
IsNumber(tok) == tok \in {"0", "1", "2", "3", "4", "5", "6", "7", "8", "9"}

\* serde_json::to_string_pretty
JsonToString(v) ==
    IF v.type = "struct"
    THEN [tag |-> "Ok", text |-> <<"{", Quote, "accent", Quote, ":", Quote, v.data, Quote, "}">>]
    ELSE [tag |-> "Ok", text |-> <<v.data>>]

\* serde_json::from_str
JsonFromStr(t) ==
    IF /\ Len(t) = 9
       /\ SubSeq(t, 1, 6) = <<"{", Quote, "accent", Quote, ":", Quote>>
       /\ SubSeq(t, 8, 9) = <<Quote, "}">>
    THEN [tag |-> "Ok", value |-> Struct(t[7])]
    ELSE IF Len(t) = 1 /\ IsNumber(t[1]) THEN [tag |-> "Ok", value |-> [type |-> "int", data |-> t[1]]]
    ELSE CodecError("Json")

\* toml::to_string_pretty: a document is a table, a bare integer is not one.
TomlToString(v) ==
    IF v.type = "struct"
    THEN [tag |-> "Ok", text |-> <<"accent", "=", Quote, v.data, Quote>>]
    ELSE CodecError("TomlSerialize")

\* toml::from_str
TomlFromStr(t) ==
    IF /\ Len(t) = 5
       /\ SubSeq(t, 1, 3) = <<"accent", "=", Quote>>
       /\ t[5] = Quote
    THEN [tag |-> "Ok", value |-> Struct(t[4])]
    ELSE CodecError("TomlDeserialize")

\* ron::ser::to_string_pretty
RonToString(v) ==
    IF v.type = "struct"
    THEN [tag |-> "Ok", text |-> <<"(", "accent", ":", Quote, v.data, Quote, ")">>]
    ELSE [tag |-> "Ok", text |-> <<v.data>>]

\* ron::from_str
RonFromStr(t) ==
    IF /\ Len(t) = 7
       /\ SubSeq(t, 1, 4) = <<"(", "accent", ":", Quote>>
       /\ SubSeq(t, 6, 7) = <<Quote, ")">>
    THEN [tag |-> "Ok", value |-> Struct(t[5])]
    ELSE IF Len(t) = 1 /\ IsNumber(t[1]) THEN [tag |-> "Ok", value |-> [type |-> "int", data |-> t[1]]]
    ELSE CodecError("RonSpanned")

\* Serialize with a fault: every typed format is written as JSON.
SerializeAlwaysJson(ft, v) == IF ft = "Plain" THEN Panic ELSE JsonToString(v)

\* The match of Set::set (lib.rs:340-348).
Serialize(ft, v) ==
    CASE ft = "Toml" -> TomlToString(v)
      [] ft = "Json" -> JsonToString(v)
      [] ft = "Ron" -> RonToString(v)
      [] ft = "Plain" -> Panic

\* The match of Get::get (lib.rs:313-321).
Deserialize(ft, t) ==
    CASE ft = "Toml" -> TomlFromStr(t)
      [] ft = "Json" -> JsonFromStr(t)
      [] ft = "Ron" -> RonFromStr(t)
      [] ft = "Plain" -> Panic

----------------------------------------------------------------------------
(* The keyed store (src/src/lib.rs): what each call computes.              *)

\* Config::new up to create_dir_all: the path of the store, or the error.
\* The name is sanitized first, then the config directory is resolved,
\* then the scope is sanitized.
ConfigPath(name, version, scope) ==
    LET n == sanitize_name(name) IN
    IF IsErr(n) THEN n
    ELSE LET main_path == PathJoin(n.path, <<"v">> \o FormatU64(version)) IN
         IF configDir = None THEN NoConfigDirectory
         ELSE LET user_path == configDir.val IN
              IF scope # None
              THEN LET sc == sanitize_name(scope.val) IN
                   IF IsErr(sc) THEN sc
                   ELSE [tag |-> "Ok", path |-> PathJoin(PathJoin(user_path, main_path), sc.path)]
              ELSE [tag |-> "Ok", path |-> PathJoin(user_path, main_path)]

\* The name has_toml, has_json and has_ron look for: format!("{key}.{}", ft);
\* has_plain looks for the key itself.
HasName(key, ft) ==
    IF ft = "Plain" THEN key ELSE key \o <<Dot>> \o FileTypeDisplay(ft)

\* Config::has_plain / has_toml / has_json / has_ron
HasKeyIn(fs, c, key, ft) == ExistsIn(fs, PathJoin(c, HasName(key, ft)))
HasKey(c, key, ft) == HasKeyIn(FS, c, key, ft)

\* Config::path
KeyPath(c, key, ft) ==
    LET name == IF ft = "Plain" THEN key ELSE key \o <<Dot>> \o FileTypeDisplay(ft)
        sn == sanitize_name(name)
    IN IF IsErr(sn) THEN sn ELSE [tag |-> "Ok", path |-> PathJoin(c, sn.path)]

\* GetCall with a fault: a missing file reads as the default value.
GetCallDefault(c, key, ft) ==
    LET kp == KeyPath(c, key, ft) IN
    IF IsErr(kp) THEN kp
    ELSE LET data == ReadToString(kp.path) IN
         IF IsErr(data) THEN [tag |-> "Ok", value |-> Struct("")]
         ELSE Deserialize(ft, data.text)

\* Get::get for Config, on the filesystem fs
GetCallIn(fs, c, key, ft) ==
    LET kp == KeyPath(c, key, ft) IN
    IF IsErr(kp) THEN kp
    ELSE LET data == ReadToStringIn(fs, kp.path) IN
         IF IsErr(data) THEN GetKey(key, data.io)
         ELSE Deserialize(ft, data.text)
GetCall(c, key, ft) == GetCallIn(FS, c, key, ft)

\* Config::get_plain, on the filesystem fs
GetPlainCallIn(fs, c, key) ==
    LET data == ReadToStringIn(fs, PathJoin(c, key)) IN
    IF IsErr(data) THEN GetKey(key, data.io) ELSE data
GetPlainCall(c, key) == GetPlainCallIn(FS, c, key)

\* AtomicFile::new: the temporary directory is made beside the destination.
TmpParent(path) ==
    LET par == PathParent(path) IN
    IF par = None \/ par.val = <<>> THEN <<Dot>> ELSE par.val

\* What rename(2) of a regular file onto path answers in (ds, fs): the
\* resolved destination, or the I/O error.
RenameTarget(ds, fs, path) ==
    LET dst == StatIn(ds, fs, path) IN
    CASE dst.kind = "dir" -> [tag |-> "Err", io |-> "IsADirectory"]
      [] dst.kind = "err" -> [tag |-> "Err", io |-> dst.io]
      [] dst.kind = "none" /\ MustBeDir(path) -> [tag |-> "Err", io |-> "NotADirectory"]
      [] OTHER -> [tag |-> "Ok", at |-> dst.at]

\* AtomicFile::write with AllowOverwrite, run to completion: a temporary
\* directory beside the destination, the data written to a new file in it,
\* the file renamed over the destination, the directory removed.
AtomicWrite(path, data) ==
    LET tmp == Stat(TmpParent(path))
        dst == RenameTarget(dirs, files, path)
        ino == IF IsOk(dst) THEN Inode(dst.at, 0, 0) ELSE Inode(<<>>, 0, 0)
        keep == IF IsOk(dst) /\ dst.at \in DOMAIN files THEN Drop(inodes, files[dst.at]) ELSE inodes
    IN IF tmp.kind # "dir"
       THEN [res |-> WriteError(IF tmp.kind = "err" THEN tmp.io
                                ELSE IF tmp.kind = "none" THEN "NotFound" ELSE "NotADirectory"),
             files |-> files, inodes |-> inodes, at |-> <<>>]
       ELSE IF IsErr(dst)
       THEN [res |-> WriteError(dst.io), files |-> files, inodes |-> inodes, at |-> <<>>]
       ELSE [res |-> [tag |-> "Ok"], files |-> Put(files, dst.at, ino),
             inodes |-> Put(keep, ino, data), at |-> dst.at]

Untouched(res) == [res |-> res, files |-> files, inodes |-> inodes, at |-> <<>>]

\* Set::set for Config
SetCall(c, key, ft, v) ==
    LET kp == KeyPath(c, key, ft) IN
    IF IsErr(kp) THEN Untouched(kp)
    ELSE LET data == Serialize(ft, v) IN
         IF ~IsOk(data) THEN Untouched(data)
         ELSE AtomicWrite(kp.path, data.text)

\* SetPlainCall with a fault: the text is written as a quoted string.
SetPlainCallQuoted(c, key, text) ==
    AtomicWrite(PathJoin(c, key), <<Quote>> \o text \o <<Quote>>)

\* Config::set_plain
SetPlainCall(c, key, text) == AtomicWrite(PathJoin(c, key), text)

----------------------------------------------------------------------------
(* The inputs the calls are made with.                                     *)

\* dirs::config_dir() on a system that has one.
ConfigHome == <<"/", "c">>
\* dirs::data_dir() on a system that has one.
DataHome == <<"/", "d">>

AppName == <<"a", "p", "p">>
ScopeA == <<"a">>
\* The application opens an unscoped and a scoped store.
Names == {AppName}

\* The path Config::new gives the store of a name, version and scope under
\* ConfigHome (lib.rs:86-95).
StoreOf(name, version, scope) ==
    LET u == PathJoin(ConfigHome, PathJoin(name, <<"v">> \o FormatU64(version))) IN
    IF scope = None THEN u ELSE PathJoin(u, scope.val)
Versions == {1}
Scopes == {None, Some(ScopeA)}

\* Names, versions and scopes for the runs that explore Config::new.
OpenNames == {AppName, <<>>, <<".">>, <<".", ".">>, <<"a", "/", "b">>, <<"/", "x">>}
OpenVersions == {1, 12}
OpenScopes == {None, Some(ScopeA), Some(<<".">>), Some(<<".", ".">>), Some(<<"a", "/", "b">>)}

\* Keys that are one normal path component.
PlainKeys == {<<"a">>, <<"b">>}
\* Keys that are not: empty, ".", "..", two components, absolute.
OddKeys == {<<>>, <<".">>, <<".", ".">>, <<"a", "/", "b">>, <<"/", "x">>}
Keys == PlainKeys \cup OddKeys

Red == Struct("red")
Blue == Struct("blue")
Values == {Red}
Texts == {<<"h", "i">>}

\* Keys, values and texts for the runs that explore the stored content.
ContentKeys == {<<"b">>}
ContentValues == {Red, Blue, Int7}
ContentTexts == {<<"h", "i">>, <<"7">>}

----------------------------------------------------------------------------
(* The keyed store, one call at a time.  A call leaves its arguments and   *)
(* result in `last`; the caller takes the result before the next call.     *)

NoCall == [op |-> "none"]
\* No write or clear of the tree has been called.
NoHistory == [phase |-> "none", again |-> FALSE]
\* No Config::write is in progress.
Idle == [active |-> FALSE, pc |-> 0, rerun |-> FALSE,
         before |-> [dirs |-> {}, files |-> <<>>, inodes |-> <<>>]]

Init ==
    /\ configDir \in {None, Some(ConfigHome)}
    /\ dirs = {<<>>, <<<<"c">>>>}
    /\ files = <<>>
    /\ inodes = <<>>
    /\ stores = {}
    /\ last = NoCall
    /\ written = {}
    /\ latest = <<>>
    /\ nCalls = 0
    /\ procs = <<>>
    /\ dataDir = Some(DataHome)
    /\ config = None
    /\ writer = Idle
    /\ project = None
    /\ history = NoHistory
    /\ held = None

\* Config::new(name, version, scope)
New(name, version, scope) ==
    /\ last = NoCall
    /\ nCalls < MaxCalls
    /\ LET cp == ConfigPath(name, version, scope)
           made == IF IsOk(cp) THEN CreateDirAll(cp.path) ELSE cp
           res == IF IsErr(cp) THEN cp
                  ELSE IF IsErr(made) THEN IoError(made.io)
                  ELSE cp
       IN /\ dirs' = IF IsOk(res) THEN made.dirs ELSE dirs
          /\ stores' = IF IsOk(res) THEN stores \cup {res.path} ELSE stores
          /\ nCalls' = IF IsOk(res) THEN nCalls + 1 ELSE nCalls
          /\ last' = [op |-> "new", name |-> name, version |-> version,
                      scope |-> scope, res |-> res]
    /\ UNCHANGED <<configDir, files, inodes, written, latest, procs, dataDir, config, writer, project, history, held>>

\* Config::has_plain / has_toml / has_json / has_ron
Has(c, key, ft) ==
    /\ last = NoCall
    /\ last' = [op |-> "has", store |-> c, key |-> key, fmt |-> ft,
                res |-> [tag |-> "Ok", found |-> HasKey(c, key, ft)]]
    /\ UNCHANGED <<configDir, dirs, files, inodes, stores, written, latest, nCalls, procs, dataDir, config, writer, project, history, held>>

\* Get::get (get_toml, get_json, get_ron)
Get(c, key, ft) ==
    /\ last = NoCall
    /\ last' = [op |-> "get", store |-> c, key |-> key, fmt |-> ft,
                res |-> GetCall(c, key, ft)]
    /\ UNCHANGED <<configDir, dirs, files, inodes, stores, written, latest, nCalls, procs, dataDir, config, writer, project, history, held>>

\* Config::get_plain
GetPlain(c, key) ==
    /\ last = NoCall
    /\ last' = [op |-> "get_plain", store |-> c, key |-> key, fmt |-> "Plain",
                res |-> GetPlainCall(c, key)]
    /\ UNCHANGED <<configDir, dirs, files, inodes, stores, written, latest, nCalls, procs, dataDir, config, writer, project, history, held>>

\* Set::set (set_toml, set_json, set_ron)
Set(c, key, ft, v) ==
    /\ last = NoCall
    /\ nCalls < MaxCalls
    /\ LET r == SetCall(c, key, ft, v) IN
       /\ files' = r.files
       /\ inodes' = r.inodes
       /\ nCalls' = IF IsOk(r.res) THEN nCalls + 1 ELSE nCalls
       /\ written' = IF IsOk(r.res)
                     THEN written \cup {[store |-> c, key |-> key, fmt |-> ft]}
                     ELSE written
       /\ latest' = IF IsOk(r.res)
                    THEN Put(latest, r.at, [op |-> "set", store |-> c, key |-> key,
                                            fmt |-> ft, value |-> v])
                    ELSE latest
       /\ last' = [op |-> "set", store |-> c, key |-> key, fmt |-> ft,
                   value |-> v, at |-> r.at, res |-> r.res]
    /\ UNCHANGED <<configDir, dirs, stores, procs, dataDir, config, writer, project, history, held>>

\* Config::set_plain
SetPlain(c, key, text) ==
    /\ last = NoCall
    /\ nCalls < MaxCalls
    /\ LET r == SetPlainCall(c, key, text) IN
       /\ files' = r.files
       /\ inodes' = r.inodes
       /\ nCalls' = IF IsOk(r.res) THEN nCalls + 1 ELSE nCalls
       /\ written' = IF IsOk(r.res)
                     THEN written \cup {[store |-> c, key |-> key, fmt |-> "Plain"]}
                     ELSE written
       /\ latest' = IF IsOk(r.res)
                    THEN Put(latest, r.at, [op |-> "set_plain", store |-> c, key |-> key,
                                            fmt |-> "Plain", text |-> text])
                    ELSE latest
       /\ last' = [op |-> "set_plain", store |-> c, key |-> key, fmt |-> "Plain",
                   text |-> text, at |-> r.at, res |-> r.res]
    /\ UNCHANGED <<configDir, dirs, stores, procs, dataDir, config, writer, project, history, held>>

\* The caller takes the result (`?` on the returned Result).
Return ==
    /\ last # NoCall
    /\ last' = NoCall
    /\ UNCHANGED <<configDir, dirs, files, inodes, stores, written, latest, nCalls, procs, dataDir, config, writer, project, history, held>>

\* An application that opens its stores and uses every kind of key.
Next ==
    \/ \E name \in Names, version \in Versions, scope \in Scopes : New(name, version, scope)
    \/ \E c \in stores, key \in Keys, ft \in FileType : Has(c, key, ft)
    \/ \E c \in stores, key \in Keys, ft \in FileType : Get(c, key, ft)
    \/ \E c \in stores, key \in Keys : GetPlain(c, key)
    \/ \E c \in stores, key \in Keys, ft \in FileType, v \in Values : Set(c, key, ft, v)
    \/ \E c \in stores, key \in Keys, text \in Texts : SetPlain(c, key, text)
    \/ Return

Spec == Init /\ [][Next]_vars

\* Callers that open stores under every kind of name, version and scope.
NextOpen ==
    \/ \E name \in OpenNames, version \in OpenVersions, scope \in OpenScopes :
          New(name, version, scope)
    \/ \E c \in stores, key \in PlainKeys : Has(c, key, "Plain")
    \/ Return

SpecOpen == Init /\ [][NextOpen]_vars

\* An application that writes and reads back every kind of content.
NextContent ==
    \/ \E scope \in Scopes : New(AppName, 1, scope)
    \/ \E c \in stores, key \in ContentKeys, ft \in FileType : Has(c, key, ft)
    \/ \E c \in stores, key \in ContentKeys, ft \in FileType : Get(c, key, ft)
    \/ \E c \in stores, key \in ContentKeys : GetPlain(c, key)
    \/ \E c \in stores, key \in ContentKeys, ft \in FileType, v \in ContentValues :
          Set(c, key, ft, v)
    \/ \E c \in stores, key \in ContentKeys, text \in ContentTexts : SetPlain(c, key, text)
    \/ Return

SpecContent == Init /\ [][NextContent]_vars

----------------------------------------------------------------------------
(* Concurrent callers of one store.  Every caller is a record in `procs`;  *)
(* a step is one system call of std::fs::read_to_string (lib.rs:310) or of *)
(* AtomicFile::write (lib.rs:349-350, 270-271): the temporary directory    *)
(* and file are created beside the destination, the data is written, the   *)
(* file is renamed over the destination, the directory is synced and the   *)
(* temporary directory removed.  Any of these system calls can fail.       *)

\* The store the callers share, and what they read and write in it.
ConcStore == StoreOf(AppName, 1, None)
ConcKey == <<"b">>
\* The arguments of the concurrent set calls: two values for the key, a
\* value TOML cannot serialize, and a key sanitize_name rejects.
ConcSets == {<<ConcKey, Red>>, <<ConcKey, Blue>>, <<ConcKey, Int7>>, <<(<<"/", "x">>), Red>>}
ConcPlainKey == ConcKey \o <<Dot>> \o FileTypeDisplay("Toml")
ConcTexts == {<<"h", "i">>}

\* The result of a call that has not returned.
NoRes == [tag |-> "Running"]
\* The descriptor of a caller that has no file open.
NoInode == Inode(<<>>, 0, 0)

\* tempfile's directory name: the prefix ".atomicwrite" and a suffix no
\* other live temporary directory has.
TmpDirName(p) == <<Dot, "atomicwrite">> \o FormatU64(p)
TmpFileName == <<"tmpfile", Dot, "tmp">>

\* Overwrite with a fault: an existing destination is not replaced.
OverwriteDisallow == "DisallowOverwrite"

\* OverwriteBehavior as Set::set and set_plain pass it (lib.rs:349, 270).
Overwrite == "AllowOverwrite"

\* WriteAt with a fault: the data is written to the destination itself.
WriteAtInPlace(dst, tmpdir) == IF IsOk(dst) THEN dst.at ELSE Append(tmpdir, TmpFileName)

\* Where AtomicFile::write puts the data before the rename: tmpfile.tmp in
\* the temporary directory.
WriteAt(dst, tmpdir) == Append(tmpdir, TmpFileName)

\* The content a reader finds at path in the filesystem fs, if a file is there.
FileText(fs, path) ==
    LET r == ReadToStringIn(fs, path) IN IF IsOk(r) THEN Some(r.text) ELSE None

\* The file has_* looks for under key and format.
KeyFileName(key, ft) == PathJoin(ConcStore, HasName(key, ft))

IsPrefix(d, at) == Len(at) >= Len(d) /\ SubSeq(at, 1, Len(d)) = d

\* TempDir's drop: the temporary directory and what is left in it are
\* removed (nothing, when the directory was never made).
RemoveTmpDir(ds, tmpdir) == IF tmpdir = <<>> THEN ds ELSE ds \ {tmpdir}
RemoveTmp(fs, tmpdir) ==
    IF tmpdir = <<>> THEN fs
    ELSE [at \in {a \in DOMAIN fs : ~IsPrefix(tmpdir, a)} |-> fs[at]]

\* The kernel keeps an inode while a directory entry or an open descriptor
\* refers to it.
Live(ins, fs, ps) ==
    [i \in {j \in DOMAIN ins :
              \/ \E at \in DOMAIN fs : fs[at] = j
              \/ \E q \in DOMAIN ps : ps[q].ino = j} |-> ins[i]]

\* A caller entering op: its arguments, the path and data it computed (or
\* the error it returns at once), and the content of the key's file then.
Caller(op, key, ft, value, path, data, res) ==
    [op |-> op, key |-> key, fmt |-> ft, value |-> value, path |-> path,
     data |-> data, pc |-> IF res # NoRes THEN "done"
                           ELSE IF op \in {"set", "set_plain"} THEN "create" ELSE "open",
     res |-> res, tmpdir |-> <<>>, tmpfile |-> <<>>, ino |-> NoInode, off |-> 0,
     buf |-> <<>>, fault |-> FALSE,
     before |-> FileText(FS, KeyFileName(key, ft))]

\* The caller returns res: its descriptor is closed.
Finish(c, res) ==
    [c EXCEPT !.pc = "done", !.res = res, !.tmpdir = <<>>, !.tmpfile = <<>>,
              !.ino = NoInode, !.off = 0]

Call(c) ==
    /\ Len(procs) < MaxCallers
    /\ procs' = Append(procs, c)
    /\ UNCHANGED <<configDir, dirs, files, inodes, stores, last, written, latest, nCalls, dataDir, config, writer, project, history, held>>

\* Set::set up to the atomic write (lib.rs:339-348): the path of the key,
\* then the serialized value.
CallSet(key, ft, v) ==
    LET kp == KeyPath(ConcStore, key, ft)
        data == Serialize(ft, v)
    IN Call(Caller("set", key, ft, v,
                   IF IsOk(kp) THEN kp.path ELSE <<>>,
                   IF IsOk(kp) /\ IsOk(data) THEN data.text ELSE <<>>,
                   IF IsErr(kp) THEN kp ELSE IF ~IsOk(data) THEN data ELSE NoRes))

\* Config::set_plain up to the atomic write (lib.rs:269).
CallSetPlain(key, text) ==
    Call(Caller("set_plain", key, "Plain", None, PathJoin(ConcStore, key), text, NoRes))

\* Get::get up to read_to_string (lib.rs:309).
CallGet(key, ft) ==
    LET kp == KeyPath(ConcStore, key, ft) IN
    Call(Caller("get", key, ft, None, IF IsOk(kp) THEN kp.path ELSE <<>>, <<>>,
                IF IsErr(kp) THEN kp ELSE NoRes))

\* Config::get_plain up to read_to_string (lib.rs:209).
CallGetPlain(key) ==
    Call(Caller("get_plain", key, "Plain", None, PathJoin(ConcStore, key), <<>>, NoRes))

Running(p, pc) == p \in DOMAIN procs /\ procs[p].pc = pc

\* The error of a temporary directory that cannot be made in tmp.
TmpDirError(tmp) ==
    WriteError(IF tmp.kind = "err" THEN tmp.io
               ELSE IF tmp.kind = "none" THEN "NotFound" ELSE "NotADirectory")

\* AtomicFile::write: tempdir_in beside the destination, and the file to
\* write opened in it (created, or truncated if it is there).
CreateTmp(p) ==
    /\ Running(p, "create")
    /\ LET c == procs[p]
           par == Stat(TmpParent(c.path))
       IN IF par.kind # "dir"
          THEN /\ procs' = [procs EXCEPT ![p] = Finish(c, TmpDirError(par))]
               /\ UNCHANGED <<dirs, files, inodes, held>>
          ELSE LET tmpdir == Append(par.at, TmpDirName(p))
                   at == WriteAt(RenameTarget(dirs, files, c.path), tmpdir)
                   ino == IF at \in DOMAIN files THEN files[at] ELSE Inode(tmpdir, p, 0)
               IN /\ dirs' = dirs \cup {tmpdir}
                  /\ files' = Put(files, at, ino)
                  /\ inodes' = Put(inodes, ino, <<>>)
                  /\ procs' = [procs EXCEPT ![p] =
                                 [c EXCEPT !.tmpdir = tmpdir, !.tmpfile = at, !.ino = ino,
                                           !.pc = IF c.data = <<>> THEN "rename" ELSE "write"]]
    /\ UNCHANGED <<configDir, stores, last, written, latest, nCalls, dataDir, config, writer, project, history, held>>

\* file.write_all(data): one write(2) of n tokens; a short write is
\* followed by the write of the rest.  The last write is followed by
\* sync_all.
WriteTmp(p, n) ==
    /\ Running(p, "write")
    /\ LET c == procs[p]
           rest == Len(c.data) - c.off
       IN /\ n >= 1
          /\ n <= rest
          /\ c.off > 0 => n = rest
          /\ inodes' = [inodes EXCEPT ![c.ino] = @ \o SubSeq(c.data, c.off + 1, c.off + n)]
          /\ procs' = [procs EXCEPT ![p] =
                         [c EXCEPT !.off = c.off + n,
                                   !.pc = IF n = rest THEN "rename" ELSE "write"]]
    /\ UNCHANGED <<configDir, dirs, files, stores, last, written, latest, nCalls, dataDir, config, writer, project, history, held>>

\* AtomicFile::commit: rename(2) of the written file over the destination.
Rename(p) ==
    /\ Running(p, "rename")
    /\ LET c == procs[p]
           dst == RenameTarget(dirs, files, c.path)
           err == IF IsErr(dst) THEN WriteError(dst.io)
                  ELSE IF c.tmpfile \notin DOMAIN files THEN WriteError("NotFound")
                  ELSE IF Overwrite = "DisallowOverwrite" /\ dst.at \in DOMAIN files
                       THEN WriteError("AlreadyExists")
                  ELSE NoRes
       IN IF err # NoRes
          THEN /\ procs' = [procs EXCEPT ![p] = Finish(c, err)]
               /\ files' = RemoveTmp(files, c.tmpdir)
               /\ dirs' = RemoveTmpDir(dirs, c.tmpdir)
               /\ inodes' = Live(inodes, files', procs')
               /\ UNCHANGED <<written, latest, held>>
          ELSE /\ procs' = [procs EXCEPT ![p] = [c EXCEPT !.pc = "dirsync", !.ino = NoInode]]
               /\ files' = Put(Drop(files, c.tmpfile), dst.at, c.ino)
               /\ inodes' = Live(inodes, files', procs')
               /\ written' = written \cup {[store |-> ConcStore, key |-> c.key, fmt |-> c.fmt]}
               /\ latest' = Put(latest, dst.at, [op |-> c.op, store |-> ConcStore, key |-> c.key,
                                                 fmt |-> c.fmt, value |-> c.value,
                                                 text |-> c.data, by |-> p])
               /\ UNCHANGED dirs
    /\ UNCHANGED <<configDir, stores, last, nCalls, dataDir, config, writer, project, history, held>>

\* After the rename: the directory is synced, the temporary directory
\* removed, and the call returns Ok(()).
SyncDir(p) ==
    /\ Running(p, "dirsync")
    /\ procs' = [procs EXCEPT ![p] = Finish(procs[p], [tag |-> "Ok"])]
    /\ dirs' = RemoveTmpDir(dirs, procs[p].tmpdir)
    /\ UNCHANGED <<configDir, files, inodes, stores, last, written, latest, nCalls, dataDir, config, writer, project, history, held>>

\* A system call of AtomicFile::write fails with an I/O error: the call
\* returns Error::Write (error.rs:47-51) and the temporary directory is
\* removed with what is in it.
Fail(p) ==
    /\ p \in DOMAIN procs
    /\ procs[p].pc \in {"create", "write", "rename", "dirsync"}
    /\ LET c == procs[p] IN
       /\ procs' = [procs EXCEPT ![p] = [Finish(c, WriteError("Other")) EXCEPT !.fault = TRUE]]
       /\ files' = RemoveTmp(files, c.tmpdir)
       /\ dirs' = RemoveTmpDir(dirs, c.tmpdir)
       /\ inodes' = Live(inodes, files', procs')
    /\ UNCHANGED <<configDir, stores, last, written, latest, nCalls, dataDir, config, writer, project, history, held>>

\* read_to_string: File::open resolves the path to the file behind it, or
\* fails, and the call returns GetKey (lib.rs:311, 210).
OpenFile(p) ==
    /\ Running(p, "open")
    /\ LET c == procs[p]
           st == Stat(c.path)
           r == ReadToString(c.path)
       IN procs' = [procs EXCEPT ![p] =
                      IF IsErr(r) THEN Finish(c, GetKey(c.key, r.io))
                      ELSE [c EXCEPT !.ino = files[st.at], !.pc = "read"]]
    /\ UNCHANGED <<configDir, dirs, files, inodes, stores, last, written, latest, nCalls, dataDir, config, writer, project, history, held>>

\* read_to_string: one read(2) of n tokens of the open file; a short read
\* is followed by the read of the rest.  At the end of the file the text
\* read is parsed (lib.rs:313-321) or returned (lib.rs:209).
ReadFile(p, n) ==
    /\ Running(p, "read")
    /\ LET c == procs[p]
           content == inodes[c.ino]
           rest == Len(content) - c.off
           buf == c.buf \o SubSeq(content, c.off + 1, c.off + n)
       IN /\ n >= 0
          /\ n <= rest \/ n = 0
          /\ n = 0 => rest <= 0
          /\ c.off > 0 => (n = rest \/ n = 0)
          /\ procs' = [procs EXCEPT ![p] =
                         IF n >= rest
                         THEN [Finish(c, IF c.op = "get" THEN Deserialize(c.fmt, buf)
                                         ELSE [tag |-> "Ok", text |-> buf])
                                 EXCEPT !.buf = buf]
                         ELSE [c EXCEPT !.off = c.off + n, !.buf = buf]]
          /\ inodes' = Live(inodes, files, procs')
    /\ UNCHANGED <<configDir, dirs, files, stores, last, written, latest, nCalls, dataDir, config, writer, project, history, held>>

\* The store is open and the key's file is absent or holds a value.
InitConc ==
    /\ configDir = Some(ConfigHome)
    /\ dirs = DirChain(ConcStore)
    /\ stores = {ConcStore}
    /\ last = NoCall
    /\ nCalls = 0
    /\ procs = <<>>
    /\ dataDir = Some(DataHome)
    /\ config = None
    /\ writer = Idle
    /\ project = None
    /\ history = NoHistory
    /\ held = None
    /\ \E present \in BOOLEAN :
         LET at == RenameTarget(dirs, <<>>, KeyFileName(ConcKey, "Toml")).at
             ino == Inode(at, 0, 0)
         IN /\ files = IF present THEN Put(<<>>, at, ino) ELSE <<>>
            /\ inodes = IF present THEN Put(<<>>, ino, Serialize("Toml", Red).text) ELSE <<>>
            /\ written = IF present
                         THEN {[store |-> ConcStore, key |-> ConcKey, fmt |-> "Toml"]}
                         ELSE {}
            /\ latest = <<>>

\* The sizes one write(2) or read(2) of caller p can have: everything that
\* is left, or, for a short one, a single token.
WriteSizes(p) ==
    IF Running(p, "write") THEN {1, Len(procs[p].data) - procs[p].off} ELSE {}
ReadSizes(p) ==
    IF Running(p, "read")
    THEN LET rest == Len(inodes[procs[p].ino]) - procs[p].off IN
         IF rest <= 0 THEN {0} ELSE {1, rest}
    ELSE {}

NextConc ==
    \/ \E kv \in ConcSets : CallSet(kv[1], "Toml", kv[2])
    \/ \E text \in ConcTexts : CallSetPlain(ConcPlainKey, text)
    \/ CallGet(ConcKey, "Toml")
    \/ CallGetPlain(ConcPlainKey)
    \/ \E p \in DOMAIN procs : CreateTmp(p)
    \/ \E p \in DOMAIN procs : \E n \in WriteSizes(p) : WriteTmp(p, n)
    \/ \E p \in DOMAIN procs : Rename(p)
    \/ \E p \in DOMAIN procs : SyncDir(p)
    \/ \E p \in DOMAIN procs : Fail(p)
    \/ \E p \in DOMAIN procs : OpenFile(p)
    \/ \E p \in DOMAIN procs : \E n \in ReadSizes(p) : ReadFile(p, n)

SpecConc == InitConc /\ [][NextConc]_vars

----------------------------------------------------------------------------
(* Properties of the keyed store.                                          *)

\* A name that is exactly one normal path component.
SingleNormal(s) ==
    LET cs == Components(s) IN Len(cs) = 1 /\ cs[1].kind = "Normal"

\* A name sanitize_name is documented to refuse: ".", "..", or more than
\* one component.
UnsafeName(s) == s = <<Dot>> \/ s = DotDot \/ Len(Components(s)) > 1

IsInvalidName(r) == r.tag = "Err" /\ r.kind = "InvalidName"
IsGetKey(r) == r.tag = "Err" /\ r.kind = "GetKey"

IoErrorKinds == {"NotFound", "NotADirectory", "IsADirectory"}

\* The resolved place of the file a typed call on (c, key, ft) uses.
KeyFile(c, key, ft) == Stat(KeyPath(c, key, ft).path)

\* C1: a get(k, f) made after a successful set(k, f, v), with no other write
\* to the file of that key and format in between, returns a value equal to v,
\* for the formats Toml, Json and Ron.
C1_RoundTrip ==
    (/\ last.op = "get"
     /\ last.fmt \in TypedFormats
     /\ IsOk(KeyPath(last.store, last.key, last.fmt))
     /\ KeyFile(last.store, last.key, last.fmt).kind = "file")
    => LET w == latest[KeyFile(last.store, last.key, last.fmt).at] IN
       (w.op = "set" /\ w.store = last.store /\ w.key = last.key /\ w.fmt = last.fmt)
       => last.res = [tag |-> "Ok", value |-> w.value]

\* C1 witness: a TOML value that replaced an earlier one is read back.
C1_Witness ==
    /\ last.op = "get"
    /\ last.fmt = "Toml"
    /\ last.res = [tag |-> "Ok", value |-> Blue]
    /\ [store |-> last.store, key |-> last.key, fmt |-> "Toml"] \in written

\* C4: for every key that is not a single normal path component ("a/b",
\* ".", "..", the empty string) get and set return InvalidName for every
\* format, and for single-component keys they never return InvalidName
\* (stated here for the formats get and set are called with: Toml, Json, Ron).
C4_OddKeysRejected ==
    (last.op \in {"get", "set"} /\ last.fmt \in TypedFormats)
    => /\ ~SingleNormal(last.key) => IsInvalidName(last.res)
       /\ SingleNormal(last.key) => ~IsInvalidName(last.res)

\* C5: Config::new returns InvalidName whenever the name, or the scope when
\* given, is ".", ".." or has more than one component, and then creates no
\* directory; it returns NoConfigDirectory when the config directory cannot
\* be resolved.
C5_NewRejectsUnsafeNames ==
    [][(last = NoCall /\ last'.op = "new")
       => LET unsafe == \/ UnsafeName(last'.name)
                        \/ last'.scope # None /\ UnsafeName(last'.scope.val)
          IN /\ (unsafe /\ configDir # None) => (IsInvalidName(last'.res) /\ dirs' = dirs)
             /\ (~unsafe /\ configDir = None) => last'.res = NoConfigDirectory]_vars

\* C6: has(k, f) is false in every state in which no set(k, f, _) has yet
\* succeeded on that store, whatever else has run, and true right after a
\* set(k, f, _) succeeds (stated here for keys of one normal component).
C6_HasFalseBeforeSet ==
    /\ (/\ last.op = "has"
        /\ SingleNormal(last.key)
        /\ [store |-> last.store, key |-> last.key, fmt |-> last.fmt] \notin written)
       => last.res.found = FALSE
    /\ (last.op \in {"set", "set_plain"} /\ SingleNormal(last.key) /\ IsOk(last.res))
       => HasKey(last.store, last.key, last.fmt)

\* The file of a path was never written by a set or set_plain.
NeverWritten(path) ==
    LET st == Stat(path) IN st.kind \in {"file", "none"} => st.at \notin DOMAIN latest

\* What a failed read of a missing key must look like: GetKey carrying the
\* key and the I/O error, and still no file at the path.
MissingKeyResult(res, key, path) ==
    /\ IsGetKey(res)
    /\ res.key = key
    /\ res.io \in IoErrorKinds
    /\ Stat(path).kind # "file"

\* C7: a get(k, f) for a key the store accepts whose file was never written,
\* and a get_plain likewise, returns GetKey carrying the key and the I/O
\* error: no panic, no default value, no file created.
C7_MissingKeyIsGetKey ==
    /\ (/\ last.op = "get"
        /\ IsOk(KeyPath(last.store, last.key, last.fmt))
        /\ NeverWritten(KeyPath(last.store, last.key, last.fmt).path))
       => MissingKeyResult(last.res, last.key, KeyPath(last.store, last.key, last.fmt).path)
    /\ (last.op = "get_plain" /\ NeverWritten(PathJoin(last.store, last.key)))
       => MissingKeyResult(last.res, last.key, PathJoin(last.store, last.key))

\* C7 witness: a typed get of a one-component key that was never written,
\* in a store where another key has been written, returns GetKey(NotFound).
C7_Witness ==
    /\ last.op = "get"
    /\ last.key = <<"b">>
    /\ last.fmt = "Toml"
    /\ written # {}
    /\ last.res = GetKey(<<"b">>, "NotFound")

\* Resolved path `at` lies inside the directory dirPath.
Under(dirPath, at) ==
    LET d == Stat(dirPath) IN
    d.kind = "dir" /\ Len(at) > Len(d.at) /\ SubSeq(at, 1, Len(d.at)) = d.at

\* What a caller of store c can observe about key k and format f in the
\* filesystem fs: the answers of has, get and get_plain.
Observe(fs, c, k, f) == <<HasKeyIn(fs, c, k, f), GetCallIn(fs, c, k, f), GetPlainCallIn(fs, c, k)>>

\* The keys sanitize_name lets through: every component is normal.
Accepted(k) == IsOk(sanitize_name(k))
AcceptedKeys == {k \in Keys : Accepted(k)}

\* A set or set_plain with an accepted key has just succeeded on store c.
JustSet(c) ==
    /\ last = NoCall
    /\ last'.op \in {"set", "set_plain"}
    /\ last'.store = c
    /\ Accepted(last'.key)
    /\ IsOk(last'.res)

\* C8: for a scoped store S and the unscoped store U of the same name and
\* version, every file written through S lies under S's directory, and no
\* set or set_plain on one changes what has, get or get_plain return on the
\* other (stated here for the keys sanitize_name accepts).
C8_ScopeIsolation ==
    [][\A name \in Names, version \in Versions, sc \in Scopes \ {None} :
         LET u == StoreOf(name, version, None)
             s == StoreOf(name, version, sc)
         IN {u, s} \subseteq stores
            => /\ JustSet(s) =>
                    /\ Under(s, last'.at)
                    /\ \A k \in AcceptedKeys, f \in FileType :
                           Observe(FS', u, k, f) = Observe(FS, u, k, f)
               /\ JustSet(u) =>
                    \A k \in AcceptedKeys, f \in FileType :
                        Observe(FS', s, k, f) = Observe(FS, s, k, f)]_vars

\* The directory a store is documented to live in: the config directory,
\* the name, "v" and the version, then the scope.
StoreDir(name, version, scope) ==
    LET base == ConfigHome \o <<Slash>> \o name \o <<Slash, "v">> \o FormatU64(version) IN
    IF scope = None THEN base ELSE base \o <<Slash>> \o scope.val

\* C9: after a successful Config::new the directory
\* <config dir>/<name>/v<version>[/<scope>] exists, every successful
\* set(k, f, v) stores its file at exactly <that directory>/<k>.<ext>, and
\* set_plain(k, _) at <that directory>/<k>.
C9_FileLocation ==
    /\ (last.op = "new" /\ IsOk(last.res))
       => Stat(StoreDir(last.name, last.version, last.scope)).kind = "dir"
    /\ (last.op = "set" /\ IsOk(last.res))
       => LET st == Stat(last.store \o <<Slash>> \o last.key \o <<Dot>>
                         \o FileTypeDisplay(last.fmt))
          IN st.kind = "file" /\ st.at = last.at
    /\ (last.op = "set_plain" /\ IsOk(last.res))
       => LET st == Stat(last.store \o <<Slash>> \o last.key)
          IN st.kind = "file" /\ st.at = last.at

----------------------------------------------------------------------------
(* Properties of concurrent callers.                                       *)

Writer(c) == c.op \in {"set", "set_plain"}
Reader(c) == c.op \in {"get", "get_plain"}
Done(c) == c.pc = "done"

\* The complete texts the callers write: a serialized value or a plain text.
CompleteTexts ==
    {Serialize("Toml", kv[2]).text : kv \in {x \in ConcSets : IsOk(Serialize("Toml", x[2]))}}
        \cup ConcTexts

\* What get and get_plain make of a text that was read.
ReadResult(c, text) ==
    IF c.op = "get" THEN Deserialize(c.fmt, text) ELSE [tag |-> "Ok", text |-> text]

\* C2: set is atomic towards readers: a get or get_plain called when the
\* key's file held a complete text, and running concurrently with set and
\* set_plain calls on that file, reads one complete text (the old one or a
\* new one), never an empty, truncated or partially written file, and
\* returns what that text gives.
C2_AtomicToReaders ==
    \A p \in DOMAIN procs :
        LET c == procs[p] IN
        (Reader(c) /\ Done(c) /\ c.before # None)
        => /\ c.buf \in CompleteTexts
           /\ c.res = ReadResult(c, c.buf)

\* A get called before a set was called returns that set's value: the
\* two calls overlapped.
C2_Witness ==
    \E p \in DOMAIN procs, q \in DOMAIN procs :
        /\ p < q
        /\ procs[p].op = "get" /\ Done(procs[p]) /\ procs[p].before = Some(Serialize("Toml", Red).text)
        /\ procs[q].op = "set" /\ procs[q].value = Blue
        /\ procs[p].res = [tag |-> "Ok", value |-> Blue]

\* C3: set has no partial-success state: when a set or set_plain that ran
\* alone has returned an error (key rejected, serialization failure, or a
\* failed system call of the atomic write) the key's file is as it was
\* before the call, and when it has returned Ok the file holds the complete
\* text.
C3_NoPartialSuccess ==
    (Len(procs) = 1 /\ Writer(procs[1]) /\ Done(procs[1]))
    => LET c == procs[1]
           now == FileText(FS, KeyFileName(c.key, c.fmt))
       IN /\ IsErr(c.res) => now = c.before
          /\ IsOk(c.res) => now = Some(c.data)

\* The call of c gets as far as the atomic write.
Writes(c) ==
    IF c.op = "set" THEN IsOk(KeyPath(ConcStore, c.key, c.fmt)) /\ IsOk(Serialize(c.fmt, c.value))
    ELSE c.op = "set_plain"

\* The text of the write whose rename was the last one onto a file.
LatestText(l) == IF l.op = "set" THEN Serialize(l.fmt, l.value).text ELSE l.text

\* C10: overwrite is unconditional and last-writer-wins: of the set calls
\* that run concurrently on one key, every one whose system calls do not
\* fail returns Ok (none is rejected because the file exists or was
\* replaced meanwhile), and the file holds exactly the complete text of the
\* write whose rename happened last.
C10_LastWriterWins ==
    /\ \A p \in DOMAIN procs :
           LET c == procs[p] IN
           (Writes(c) /\ Done(c) /\ ~c.fault) => c.res = [tag |-> "Ok"]
    /\ \A at \in DOMAIN latest :
           /\ at \in DOMAIN files
           /\ inodes[files[at]] = LatestText(latest[at])

\* Two sets of different values have both returned Ok and the file holds
\* the value of the one that was called first: its rename came last.
C10_Witness ==
    \E p \in DOMAIN procs, q \in DOMAIN procs, at \in DOMAIN latest :
        /\ p < q
        /\ procs[p].op = "set" /\ procs[q].op = "set"
        /\ procs[p].res = [tag |-> "Ok"] /\ procs[q].res = [tag |-> "Ok"]
        /\ procs[p].value # procs[q].value
        /\ latest[at].by = p
        /\ inodes[files[at]] = Serialize("Toml", procs[p].value).text

----------------------------------------------------------------------------
(* Files written in place (std::fs::File::create and write_all), as the    *)
(* project registry (src/src/project.rs) and the tree writer               *)
(* (src/src/config.rs, src/src/element.rs) write them.                     *)

\* std::fs::File::create: the file is created, or truncated when it exists;
\* the directory it is in must exist and the path must not be a directory.
FileCreateIn(fs, s) ==
    LET st == StatIn(fs.dirs, fs.files, s) IN
    CASE st.kind = "err" -> [tag |-> "Err", io |-> st.io]
      [] st.kind = "dir" -> [tag |-> "Err", io |-> "IsADirectory"]
      [] st.kind = "file" ->
           [tag |-> "Ok", at |-> st.at,
            fs |-> [fs EXCEPT !.inodes = Put(fs.inodes, fs.files[st.at], <<>>)]]
      [] st.kind = "none" ->
           IF MustBeDir(s) THEN [tag |-> "Err", io |-> "IsADirectory"]
           ELSE [tag |-> "Ok", at |-> st.at,
                 fs |-> [fs EXCEPT !.files = Put(fs.files, st.at, Inode(st.at, 0, 0)),
                                   !.inodes = Put(fs.inodes, Inode(st.at, 0, 0), <<>>)]]

\* Write::write_all on the file File::create opened at `at`.
WriteAllIn(fs, at, text) == [fs EXCEPT !.inodes = Put(fs.inodes, fs.files[at], text)]

\* std::fs::create_dir_all in the filesystem fs.
CreateDirAllIn(fs, s) ==
    IF \E d \in DirChain(s) : d \in DOMAIN fs.files
    THEN [tag |-> "Err", io |-> "NotADirectory"]
    ELSE [tag |-> "Ok", fs |-> [fs EXCEPT !.dirs = fs.dirs \cup DirChain(s)]]

----------------------------------------------------------------------------
(* The project registry (src/src/project.rs).                              *)

Backslash == "\\"
Newline == "\n"
\* The brackets of the header of an array of tables.
TableOpen == "[["
TableClose == "]]"

\* The fields of Project in declaration order (project.rs:13-26).
ProjectFields == <<"qualifier", "organization", "application", "author", "version", "about">>

\* EscapeToml with a fault: the string is written as it is.
EscapeTomlRaw(str) == str

\* A basic string of TOML: quotes and backslashes are escaped.
RECURSIVE EscapeToml(_)
EscapeToml(str) ==
    IF str = <<>> THEN <<>>
    ELSE (IF Head(str) \in {Quote, Backslash} THEN <<Backslash, Head(str)>> ELSE <<Head(str)>>)
         \o EscapeToml(Tail(str))

\* toml::to_string of a record of strings: one `key = "value"` line a field.
RECURSIVE TomlOfFields(_, _)
TomlOfFields(rec, fields) ==
    IF fields = <<>> THEN <<>>
    ELSE <<Head(fields), "=", Quote>> \o EscapeToml(rec[Head(fields)]) \o <<Quote, Newline>>
         \o TomlOfFields(rec, Tail(fields))

\* The basic string that starts after the opening quote at t[i - 1]: the
\* characters up to the closing quote, escapes undone.
RECURSIVE TomlStringFrom(_, _, _)
TomlStringFrom(t, i, acc) ==
    IF i > Len(t) THEN [ok |-> FALSE]
    ELSE IF t[i] = Quote THEN [ok |-> TRUE, val |-> acc, next |-> i + 1]
    ELSE IF t[i] = Backslash
         THEN IF i + 1 > Len(t) \/ t[i + 1] \notin {Quote, Backslash} THEN [ok |-> FALSE]
              ELSE TomlStringFrom(t, i + 2, Append(acc, t[i + 1]))
    ELSE IF t[i] = Newline THEN [ok |-> FALSE]
    ELSE TomlStringFrom(t, i + 1, Append(acc, t[i]))

\* The `key = "value"` lines of a TOML document from position i on, as a
\* function from keys to values, up to the end or to the header of the
\* first array of tables; a line of another shape is a syntax error.
RECURSIVE TomlLinesFrom(_, _, _)
TomlLinesFrom(t, i, acc) ==
    IF i > Len(t) \/ t[i] = TableOpen THEN [ok |-> TRUE, table |-> acc, next |-> i]
    ELSE IF i + 2 > Len(t) \/ t[i + 1] # "=" \/ t[i + 2] # Quote \/ t[i] \in DOMAIN acc
         THEN [ok |-> FALSE]
    ELSE LET str == TomlStringFrom(t, i + 3, <<>>) IN
         IF ~str.ok THEN [ok |-> FALSE]
         ELSE IF str.next > Len(t) \/ t[str.next] # Newline THEN [ok |-> FALSE]
         ELSE TomlLinesFrom(t, str.next + 1, Put(acc, t[i], str.val))

\* toml::from_str::<T> for a struct T of string fields: every field of T
\* must be there, other keys are ignored.
TomlToFields(t, fields) ==
    LET doc == TomlLinesFrom(t, 1, <<>>) IN
    IF ~doc.ok THEN CodecError("TomlDeserialize")
    ELSE IF \E i \in 1..Len(fields) : fields[i] \notin DOMAIN doc.table
         THEN CodecError("TomlDeserialize")
    ELSE [tag |-> "Ok", value |-> [f \in {fields[i] : i \in 1..Len(fields)} |-> doc.table[f]]]

\* str::to_lowercase, on the letters the model uses.
LowerChar(ch) == IF ch = "A" THEN "a" ELSE IF ch = "B" THEN "b" ELSE ch
ToLowercase(str) == [i \in 1..Len(str) |-> LowerChar(str[i])]

\* ProjectDirs::from(..).data_dir() on Linux: the lower-cased application
\* name under the data directory; None when there is no data directory.
ProjectDataDir(dd, application) ==
    IF dd = None THEN None ELSE Some(PathJoin(dd.val, ToLowercase(application)))

\* format!("{}.{}.{}.toml", qualifier, organization, application)
ProjectFileName(q, o, a) == q \o <<Dot>> \o o \o <<Dot>> \o a \o <<Dot>> \o FileTypeDisplay("Toml")

\* The record Project::new starts from (project.rs:47-54).
NewProject(q, o, a) ==
    [qualifier |-> q, organization |-> o, application |-> a,
     author |-> <<>>, version |-> <<>>, about |-> <<>>]

\* The system calls of Project::update that can be made to fail.
UpdateFaults == {"none", "create", "write"}

\* Project::update in the filesystem fs: the record is written in place to
\* its file; every failure but a missing project directory is an expect().
UpdateIn(fs, dd, rec, fault) ==
    LET pd == ProjectDataDir(dd, rec.application) IN
    IF pd = None THEN [res |-> [tag |-> "Err", kind |-> "NoProjectDirectory"], fs |-> fs]
    ELSE LET made == FileCreateIn(fs, PathJoin(pd.val,
                         ProjectFileName(rec.qualifier, rec.organization, rec.application)))
         IN IF fault = "create" \/ ~IsOk(made) THEN [res |-> Panic, fs |-> fs]
            ELSE IF fault = "write" THEN [res |-> Panic, fs |-> made.fs]
            ELSE [res |-> [tag |-> "Ok"],
                  fs |-> WriteAllIn(made.fs, made.at, TomlOfFields(rec, ProjectFields))]

\* Project::open in the filesystem fs
ProjectOpenIn(fs, dd, q, o, a) ==
    LET pd == ProjectDataDir(dd, a) IN
    IF pd = None THEN [tag |-> "Err", kind |-> "NoProjectDirectory"]
    ELSE LET data == ReadToStringIn(fs, PathJoin(pd.val, ProjectFileName(q, o, a))) IN
         IF ~IsOk(data) THEN IoError(data.io)
         ELSE TomlToFields(data.text, ProjectFields)

\* The identity of the application and what its metadata is set to.
Qualifier == <<"c">>
Organization == <<"o">>
Application == <<"A">>
Authors == {<<"e">>, <<"e", Quote>>, <<Backslash>>}
ProjectVersions == {<<"1">>}
Abouts == {<<"x">>}

\* The filesystem the variables hold becomes fs.
SetFS(fs) ==
    /\ dirs' = fs.dirs
    /\ files' = fs.files
    /\ inodes' = fs.inodes

\* Project::new(qualifier, organization, application)
ProjectNew(q, o, a, fault) ==
    /\ last = NoCall
    /\ nCalls < MaxCalls
    /\ LET rec == NewProject(q, o, a)
           pd == ProjectDataDir(dataDir, a)
           made == IF pd = None THEN [tag |-> "None"]
                   ELSE IF fault = "create_dir" THEN [tag |-> "Err", io |-> "PermissionDenied"]
                   ELSE CreateDirAllIn(FS, pd.val)
           upd == IF IsOk(made) THEN UpdateIn(made.fs, dataDir, rec, fault)
                  ELSE [res |-> IF pd = None THEN [tag |-> "Ok"] ELSE Panic, fs |-> FS]
           res == IF IsOk(upd.res) THEN [tag |-> "Ok", record |-> rec] ELSE Panic
       IN /\ SetFS(upd.fs)
          /\ project' = IF IsOk(res) THEN Some(rec) ELSE None
          /\ last' = [op |-> "Project::new", res |-> res]
    /\ nCalls' = nCalls + 1
    /\ UNCHANGED <<configDir, stores, written, latest, procs, dataDir, config, writer, history, held>>

\* Project::author / version / about: the field is set in the record the
\* call consumes, the record is persisted, unwrap() takes the result.
ProjectSetField(field, str, fault) ==
    /\ last = NoCall
    /\ nCalls < MaxCalls
    /\ project # None
    /\ LET rec == [project.val EXCEPT ![field] = str]
           upd == UpdateIn(FS, dataDir, rec, fault)
           res == IF IsOk(upd.res) THEN [tag |-> "Ok", record |-> rec] ELSE Panic
       IN /\ SetFS(upd.fs)
          /\ project' = IF IsOk(res) THEN Some(rec) ELSE None
          /\ last' = [op |-> "Project::" \o field, res |-> res]
    /\ nCalls' = nCalls + 1
    /\ UNCHANGED <<configDir, stores, written, latest, procs, dataDir, config, writer, history, held>>

\* Project::open(qualifier, organization, application)
ProjectOpen(q, o, a) ==
    /\ last = NoCall
    /\ last' = [op |-> "Project::open", res |-> ProjectOpenIn(FS, dataDir, q, o, a)]
    /\ UNCHANGED <<configDir, dirs, files, inodes, stores, written, latest, nCalls, procs,
                   dataDir, config, writer, project, history, held>>

InitProject ==
    /\ configDir = Some(ConfigHome)
    /\ dataDir \in {None, Some(DataHome)}
    /\ dirs = {<<>>, <<<<"c">>>>, <<<<"d">>>>}
    /\ files = <<>>
    /\ inodes = <<>>
    /\ stores = {}
    /\ last = NoCall
    /\ written = {}
    /\ latest = <<>>
    /\ nCalls = 0
    /\ procs = <<>>
    /\ config = None
    /\ writer = Idle
    /\ project = None
    /\ history = NoHistory
    /\ held = None

\* An application that registers itself and sets its metadata.
NextProject ==
    \/ \E fault \in UpdateFaults \cup {"create_dir"} :
          ProjectNew(Qualifier, Organization, Application, fault)
    \/ \E str \in Authors, fault \in UpdateFaults : ProjectSetField("author", str, fault)
    \/ \E str \in ProjectVersions, fault \in UpdateFaults : ProjectSetField("version", str, fault)
    \/ \E str \in Abouts, fault \in UpdateFaults : ProjectSetField("about", str, fault)
    \/ ProjectOpen(Qualifier, Organization, Application)
    \/ Return

SpecProject == InitProject /\ [][NextProject]_vars

----------------------------------------------------------------------------
(* Failures are values.                                                    *)

\* C11: every call hands a value back to its caller, Ok or a typed error;
\* no call ends in a panic: not a typed get or set with the Plain format,
\* not a project record whose file cannot be created or written.
C11_NoPanic == last # NoCall => last.res # Panic

C12_PlainRoundTrip ==
    (/\ last.op = "get_plain"
     /\ Stat(PathJoin(last.store, last.key)).kind = "file")
    => LET w == latest[Stat(PathJoin(last.store, last.key)).at] IN
       (w.op = "set_plain" /\ w.store = last.store /\ w.key = last.key)
       => last.res = [tag |-> "Ok", text |-> w.text]

\* C12 witness: a text that replaced an earlier one is read back.
C12_Witness ==
    /\ last.op = "get_plain"
    /\ last.res = [tag |-> "Ok", text |-> <<"7">>]
    /\ nCalls = MaxCalls
    /\ latest[Stat(PathJoin(last.store, last.key)).at].op = "set_plain"

----------------------------------------------------------------------------
(* The element tree (src/src/element.rs) and the Config that owns it       *)
(* (src/src/config.rs).                                                    *)

\* Element::new(name) with its type, format, content and children set
\* (set_type, set_format, set_content, add_child); the path is not set yet.
Element(name, type, format, content, children) ==
    [name |-> name, path |-> <<>>, element_type |-> type, element_format |-> format,
     content |-> content, children |-> children]

\* new_file!(name) / new_dir!(name)
NewFile(name) == Element(name, "File", None, None, <<>>)
NewDir(name, children) == Element(name, "Directory", None, None, children)

\* Element::set_path
set_path(element, path) == [element EXCEPT !.path = PathJoin(path, element.name)]

\* Config::fill_paths with a fault: the children of the children keep the
\* path they had.
fill_paths_one_level(element) ==
    [element EXCEPT !.children =
        [i \in DOMAIN element.children |-> set_path(element.children[i], element.path)]]

\* Config::fill_paths
RECURSIVE fill_paths(_)
fill_paths(element) ==
    [element EXCEPT !.children =
        [i \in DOMAIN element.children |->
            LET child == set_path(element.children[i], element.path) IN
            IF child.children # <<>> THEN fill_paths(child) ELSE child]]

\* routes::data() joined with the name: Config::path
ConfigBasePath(dd, name) == PathJoin(dd.val, name)

\* Config::add with a fault: the first element takes the name of the Config
\* before its path is set.
ConfigAddRenameFirst(dd, cfg, element) ==
    LET named == IF cfg.elements = <<>> THEN [element EXCEPT !.name = cfg.name] ELSE element
        placed == set_path(named, ConfigBasePath(dd, cfg.name))
        filled == [placed EXCEPT !.children =
                      [i \in DOMAIN placed.children |->
                          fill_paths(set_path(placed.children[i], placed.path))]]
    IN IF cfg.elements # <<>>
       THEN [cfg EXCEPT !.elements[1].children = Append(@, filled)]
       ELSE [cfg EXCEPT !.elements = <<filled>>]

\* Config::add
ConfigAddTo(dd, cfg, element) ==
    LET placed == set_path(element, ConfigBasePath(dd, cfg.name))
        filled == [placed EXCEPT !.children =
                      [i \in DOMAIN placed.children |->
                          fill_paths(set_path(placed.children[i], placed.path))]]
    IN IF cfg.elements # <<>>
       THEN [cfg EXCEPT !.elements[1].children = Append(@, filled)]
       ELSE [cfg EXCEPT !.elements = <<[filled EXCEPT !.name = cfg.name]>>]

\* The name of the self-description file.
AppToml == <<"a", "p", "p", ".", "t", "o", "m", "l">>

\* Config::new(name)
ConfigNewOf(dd, name) ==
    ConfigAddTo(dd,
                [name |-> name, author |-> <<>>, version |-> <<>>, about |-> <<>>,
                 elements |-> <<>>],
                NewDir(<<>>, <<NewFile(AppToml)>>))

\* The nodes of the tree under an element, the element first, each with its
\* parent (None for the element itself).
RECURSIVE NodesUnder(_, _)
RECURSIVE ChildNodes(_, _)
ChildNodes(element, i) ==
    IF i > Len(element.children) THEN <<>>
    ELSE NodesUnder(element.children[i], Some(element)) \o ChildNodes(element, i + 1)
NodesUnder(element, parent) ==
    <<[node |-> element, parent |-> parent]>> \o ChildNodes(element, 1)

\* Every node of a Config's tree.
ConfigNodes(cfg) ==
    IF cfg.elements = <<>> THEN <<>> ELSE NodesUnder(cfg.elements[1], None)

\* PathBuf's equality: the components are compared.
SamePath(p, q) == Components(p) = Components(q)

----------------------------------------------------------------------------
(* The tree writer: Config::write, Config::write_recursive, Element::write *)
(* and the self-description Config::set writes (src/src/config.rs,         *)
(* src/src/element.rs).                                                    *)

\* The match of Config::set (config.rs:268-271): FileFormat::TOML, JSON.
ConfigSerialize(format, content) ==
    IF format = "Toml" THEN TomlToString(content) ELSE JsonToString(content)

\* The system calls of the writer that can be made to fail.
WriteFaults == {"none", "create", "write"}

\* Config::set with the content serialized to `data`: the file is created
\* or truncated first, then the content is serialized and written.
ConfigSetIn(fs, dd, path, data, fault) ==
    LET made == FileCreateIn(fs, PathJoin(dd.val, path)) IN
    IF fault = "create" THEN [res |-> IoError("PermissionDenied"), fs |-> fs]
    ELSE IF ~IsOk(made) THEN [res |-> IoError(made.io), fs |-> fs]
    ELSE IF ~IsOk(data) THEN [res |-> data, fs |-> made.fs]
    ELSE IF fault = "write" THEN [res |-> IoError("StorageFull"), fs |-> made.fs]
    ELSE [res |-> [tag |-> "Ok"], fs |-> WriteAllIn(made.fs, made.at, data.text)]

\* ElementWriteIn with a fault: a file that exists is left as it is.
ElementWriteKeepFiles(fs, dd, element, fault) ==
    IF ExistsIn(fs, element.path) THEN [res |-> [tag |-> "Ok"], fs |-> fs]
    ELSE IF element.element_type = "Directory"
    THEN IF ~IsOk(CreateDirAllIn(fs, element.path)) THEN [res |-> IoError("NotADirectory"), fs |-> fs]
         ELSE [res |-> [tag |-> "Ok"], fs |-> CreateDirAllIn(fs, element.path).fs]
    ELSE IF ~IsOk(FileCreateIn(fs, element.path)) THEN [res |-> IoError("NotFound"), fs |-> fs]
         ELSE [res |-> [tag |-> "Ok"], fs |-> FileCreateIn(fs, element.path).fs]

\* Element::write (element.rs:120-139)
ElementWriteIn(fs, dd, element, fault) ==
    IF element.element_type = "Directory"
    THEN IF ExistsIn(fs, element.path) THEN [res |-> [tag |-> "Ok"], fs |-> fs]
         ELSE LET made == CreateDirAllIn(fs, element.path) IN
              IF fault = "create" THEN [res |-> IoError("PermissionDenied"), fs |-> fs]
              ELSE IF ~IsOk(made) THEN [res |-> IoError(made.io), fs |-> fs]
              ELSE [res |-> [tag |-> "Ok"], fs |-> made.fs]
    ELSE LET made == FileCreateIn(fs, element.path) IN
         IF fault = "create" THEN [res |-> IoError("PermissionDenied"), fs |-> fs]
         ELSE IF ~IsOk(made) THEN [res |-> IoError(made.io), fs |-> fs]
         ELSE IF element.content # None /\ element.element_format # None
              THEN ConfigSetIn(made.fs, dd, element.path,
                               ConfigSerialize(element.element_format.val, element.content.val),
                               fault)
         ELSE [res |-> [tag |-> "Ok"], fs |-> made.fs]

\* The calls of Element::write that Config::write_recursive makes, in order:
\* the element, then each child, and again each child that has children
\* with what is under it.
RECURSIVE WriteRecursive(_)
RECURSIVE ChildWrites(_, _)
ChildWrites(element, i) ==
    IF i > Len(element.children) THEN <<>>
    ELSE <<element.children[i]>>
         \o (IF element.children[i].children # <<>>
             THEN WriteRecursive(element.children[i]) ELSE <<>>)
         \o ChildWrites(element, i + 1)
\* WriteRecursive with a fault: the element is written after its children.
WriteRecursiveChildrenFirst(element) == ChildWrites(element, 1) \o <<element>>

WriteRecursive(element) == <<element>> \o ChildWrites(element, 1)

\* The calls of Element::write one Config::write makes (config.rs:142-144).
RECURSIVE WriteOrderFrom(_, _)
WriteOrderFrom(elements, i) ==
    IF i > Len(elements) THEN <<>>
    ELSE WriteRecursive(elements[i]) \o WriteOrderFrom(elements, i + 1)
WriteOrder(cfg) == WriteOrderFrom(cfg.elements, 1)

\* The fields of Config that are strings (config.rs:12-18).
ConfigFields == <<"name", "author", "version", "about">>
ElementFields == <<"name", "path", "element_type">>

\* The array of tables toml::to_string writes for the elements: a table a
\* node, its name, path and type as strings.
RECURSIVE ElementsToml(_, _)
ElementsToml(nodes, i) ==
    IF i > Len(nodes) THEN <<>>
    ELSE <<TableOpen, "elements", TableClose, Newline>>
         \o TomlOfFields([name |-> nodes[i].node.name, path |-> nodes[i].node.path,
                          element_type |-> <<nodes[i].node.element_type>>], ElementFields)
         \o ElementsToml(nodes, i + 1)

\* toml::to_string(&config)
ConfigToml(cfg) == TomlOfFields(cfg, ConfigFields) \o ElementsToml(ConfigNodes(cfg), 1)

\* The tables from position i on: each a header and the lines of an element.
RECURSIVE TomlTablesFrom(_, _, _)
TomlTablesFrom(t, i, n) ==
    IF i > Len(t) THEN [ok |-> TRUE, tables |-> n]
    ELSE IF i + 3 > Len(t) \/ t[i] # TableOpen \/ t[i + 2] # TableClose \/ t[i + 3] # Newline
         THEN [ok |-> FALSE]
    ELSE LET lines == TomlLinesFrom(t, i + 4, <<>>) IN
         IF ~lines.ok \/ \E k \in 1..Len(ElementFields) : ElementFields[k] \notin DOMAIN lines.table
         THEN [ok |-> FALSE]
         ELSE TomlTablesFrom(t, lines.next, n + 1)

\* toml::from_slice::<Config>: the strings of the Config; the elements must be
\* there and be well formed.
ConfigFromToml(t) ==
    LET head == TomlToFields(t, ConfigFields)
        doc == TomlLinesFrom(t, 1, <<>>)
        tables == TomlTablesFrom(t, doc.next, 0)
    IN IF ~IsOk(head) THEN head
       ELSE IF ~tables.ok \/ tables.tables = 0 THEN CodecError("TomlDeserialize")
       ELSE head

\* Config::get::<Config>(path, FileFormat::TOML): None whenever the file is
\* not there, cannot be read or cannot be parsed.
ConfigGetIn(fs, dd, path) ==
    LET full == PathJoin(dd.val, path)
        data == ReadToStringIn(fs, full)
    IN IF ~ExistsIn(fs, full) \/ ~IsOk(data) THEN None
       ELSE IF ~IsOk(ConfigFromToml(data.text)) THEN None
       ELSE Some(ConfigFromToml(data.text).value)

\* format!("{}/app.toml", name)
SelfPath(name) == name \o <<Slash>> \o AppToml

\* Config::current(name) (config.rs:211-213)
CurrentIn(fs, dd, name) == ConfigGetIn(fs, dd, SelfPath(name))

\* Config::current() of utils/config/mod.rs:141-143: the path is fixed.
Devmode == <<"d", "e", "v", "m", "o", "d", "e">>
CurrentDevmodeIn(fs, dd) == ConfigGetIn(fs, dd, SelfPath(Devmode))

\* Config::is_written
IsWrittenIn(fs, dd, cfg) == CurrentIn(fs, dd, cfg.name) # None

\* std::fs::remove_dir_all: the directory and everything under it.
RemoveDirAllIn(fs, s) ==
    LET st == StatIn(fs.dirs, fs.files, s) IN
    IF st.kind = "dir" /\ st.at # <<>>
    THEN LET gone == {f \in DOMAIN fs.files : IsPrefix(st.at, f)} IN
         [tag |-> "Ok",
          fs |-> [dirs |-> {d \in fs.dirs : ~IsPrefix(st.at, d)},
                  files |-> [f \in DOMAIN fs.files \ gone |-> fs.files[f]],
                  inodes |-> [n \in DOMAIN fs.inodes \ {fs.files[f] : f \in gone}
                                |-> fs.inodes[n]]]]
    ELSE [tag |-> "Err", io |-> IF st.kind = "none" THEN "NotFound"
                                ELSE IF st.kind = "err" THEN st.io ELSE "NotADirectory"]

----------------------------------------------------------------------------
(* The application that builds a tree (Config::new, author, version, about *)
(* and add, chained as in examples/structure.rs), then writes it, clears   *)
(* it and asks whether it is written, while other programs use the same    *)
(* directories.                                                            *)

\* Elements declared at most, beside the root and app.toml.
MaxElements == 1

\* The elements the application adds: a file with content, a directory with
\* a file, directories nested three deep with a file, and a directory named
\* by a relative path of two components.
Settings == Element(<<"s">>, "File", Some("Toml"), Some(Red), <<>>)
DirWithFile == NewDir(<<"g">>, <<NewFile(<<"t">>)>>)
DirWithDir == NewDir(<<"g">>, <<NewDir(<<"h">>, <<NewDir(<<"j">>, <<NewFile(<<"t">>)>>)>>)>>)
DirOfTwo == NewDir(<<"k", "/", "m">>, <<>>)
Shapes == {Settings, DirWithFile, DirWithDir, DirOfTwo}

\* What the metadata of the tree is set to.
ConfigAuthors == {<<"e", Quote>>}
ConfigVersions == {<<"1">>}
ConfigAbouts == {<<"x">>}

\* Text another program writes into a file, and the file it leaves behind.
Scribbled == <<"z">>
Foreign == <<"x">>

\* Config::new(name): routes::data() is an expect().
ConfigNew(name) ==
    /\ last = NoCall
    /\ config = None
    /\ config' = IF dataDir = None THEN None ELSE Some(ConfigNewOf(dataDir, name))
    /\ last' = [op |-> "Config::new", res |-> IF dataDir = None THEN Panic ELSE [tag |-> "Ok"]]
    /\ UNCHANGED <<configDir, dirs, files, inodes, stores, written, latest, nCalls, procs,
                   dataDir, writer, project, history, held>>

\* Config::author / version / about (config.rs:61-86)
ConfigSetField(field, str) ==
    /\ last = NoCall
    /\ config # None
    /\ nCalls = 0
    /\ config.val[field] # str
    /\ config' = Some([config.val EXCEPT ![field] = str])
    /\ UNCHANGED <<configDir, dirs, files, inodes, stores, last, written, latest, nCalls,
                   procs, dataDir, writer, project, history, held>>

\* Config::add(element)
ConfigAdd(element) ==
    /\ last = NoCall
    /\ config # None
    /\ nCalls = 0
    /\ Len(config.val.elements[1].children) <= MaxElements
    /\ config' = Some(ConfigAddTo(dataDir, config.val, element))
    /\ UNCHANGED <<configDir, dirs, files, inodes, stores, last, written, latest, nCalls,
                   procs, dataDir, writer, project, history, held>>

\* Abort with a fault: the error is recorded and the traversal goes on.
AbortNot(w) == [w EXCEPT !.pc = @ + 1]

\* The `?` on element.write() (config.rs:154, 156): the traversal ends.
Abort(w) == [w EXCEPT !.active = FALSE]

\* Config::write is called: the traversal starts.
Write ==
    /\ last = NoCall
    /\ ~writer.active
    /\ config # None
    /\ nCalls < MaxCalls
    /\ writer' = [active |-> TRUE, pc |-> 0, before |-> FS,
                  rerun |-> history.phase = "written" /\ ~history.again]
    /\ nCalls' = nCalls + 1
    /\ history' = IF history.phase = "cleared" THEN NoHistory
                  ELSE [history EXCEPT !.again = TRUE]
    /\ UNCHANGED <<configDir, dirs, files, inodes, stores, last, written, latest, procs,
                   dataDir, config, project, held>>

\* The next Element::write of the traversal; its error ends Config::write.
WriteElement(fault) ==
    /\ writer.active
    /\ writer.pc < Len(WriteOrder(config.val))
    /\ LET r == ElementWriteIn(FS, dataDir, WriteOrder(config.val)[writer.pc + 1], fault) IN
       /\ fault # "none" => ~IsOk(r.res)
       /\ SetFS(r.fs)
       /\ writer' = IF IsOk(r.res) THEN [writer EXCEPT !.pc = @ + 1] ELSE Abort(writer)
       /\ last' = IF IsOk(r.res) THEN last
                  ELSE [op |-> "write", node |-> writer.pc + 1, res |-> r.res]
    /\ UNCHANGED <<configDir, stores, written, latest, nCalls, procs, dataDir, config,
                   project, history, held>>

\* The end of Config::write: the Config is written to app.toml.
WriteSelf(fault) ==
    /\ writer.active
    /\ writer.pc = Len(WriteOrder(config.val))
    /\ LET r == ConfigSetIn(FS, dataDir, SelfPath(config.val.name),
                            [tag |-> "Ok", text |-> ConfigToml(config.val)], fault) IN
       /\ SetFS(r.fs)
       /\ writer' = [writer EXCEPT !.active = FALSE,
                                   !.pc = IF IsOk(r.res) THEN @ + 1 ELSE @]
       /\ last' = [op |-> "write", node |-> writer.pc + 1, res |-> r.res]
       /\ history' = IF IsOk(r.res)
                     THEN [phase |-> "written", again |-> FALSE]
                     ELSE history
    /\ UNCHANGED <<configDir, stores, written, latest, nCalls, procs, dataDir, config, project, held>>

\* Config::clear
Clear ==
    /\ last = NoCall
    /\ ~writer.active
    /\ config # None
    /\ nCalls < MaxCalls
    /\ LET r == RemoveDirAllIn(FS, config.val.elements[1].path) IN
       /\ SetFS(IF IsOk(r) THEN r.fs ELSE FS)
       /\ last' = [op |-> "clear", res |-> IF IsOk(r) THEN [tag |-> "Ok"] ELSE IoError(r.io)]
       /\ history' = IF IsOk(r) THEN [phase |-> "cleared", again |-> FALSE] ELSE NoHistory
    /\ nCalls' = nCalls + 1
    /\ UNCHANGED <<configDir, stores, written, latest, procs, dataDir, config, writer, project, held>>

\* Config::is_written
IsWritten ==
    /\ last = NoCall
    /\ ~writer.active
    /\ config # None
    /\ last' = [op |-> "is_written", res |-> [tag |-> "Ok", found |-> IsWrittenIn(FS, dataDir, config.val)]]
    /\ UNCHANGED <<configDir, dirs, files, inodes, stores, written, latest, nCalls, procs,
                   dataDir, config, writer, project, history, held>>

\* Config::current(name) of config.rs
Current(name) ==
    /\ last = NoCall
    /\ ~writer.active
    /\ dataDir # None
    /\ last' = [op |-> "current", name |-> name, res |-> CurrentIn(FS, dataDir, name)]
    /\ UNCHANGED <<configDir, dirs, files, inodes, stores, written, latest, nCalls, procs,
                   dataDir, config, writer, project, history, held>>

\* Config::current() of utils/config/mod.rs
CurrentDevmode ==
    /\ last = NoCall
    /\ ~writer.active
    /\ dataDir # None
    /\ last' = [op |-> "current()", name |-> Devmode, res |-> CurrentDevmodeIn(FS, dataDir)]
    /\ UNCHANGED <<configDir, dirs, files, inodes, stores, written, latest, nCalls, procs,
                   dataDir, config, writer, project, history, held>>

\* The file nodes of the tree but the self-description, and the directory
\* nodes, as they are on disk.
FileNodesOnDisk(cfg) ==
    {i \in 1..Len(ConfigNodes(cfg)) :
        /\ ConfigNodes(cfg)[i].node.element_type = "File"
        /\ ConfigNodes(cfg)[i].node.name # AppToml
        /\ StatIn(dirs, files, ConfigNodes(cfg)[i].node.path).kind = "file"}
DirNodesOnDisk(cfg) ==
    {i \in 1..Len(ConfigNodes(cfg)) :
        /\ ConfigNodes(cfg)[i].node.element_type = "Directory"
        /\ StatIn(dirs, files, ConfigNodes(cfg)[i].node.path).kind = "dir"}

\* Another program writes into a file of the written tree.
Scribble(i) ==
    /\ last = NoCall
    /\ ~writer.active
    /\ history.phase = "written"
    /\ nCalls < MaxCalls
    /\ i \in FileNodesOnDisk(config.val)
    /\ LET at == StatIn(dirs, files, ConfigNodes(config.val)[i].node.path).at IN
       /\ inodes[files[at]] # Scribbled
       /\ inodes' = Put(inodes, files[at], Scribbled)
    /\ nCalls' = nCalls + 1
    /\ UNCHANGED <<configDir, dirs, files, stores, last, written, latest, procs, dataDir,
                   config, writer, project, history, held>>

\* Another program leaves a file of its own in a directory of the written tree.
Litter(i) ==
    /\ last = NoCall
    /\ ~writer.active
    /\ history.phase = "written"
    /\ nCalls < MaxCalls
    /\ i \in DirNodesOnDisk(config.val)
    /\ LET made == FileCreateIn(FS, PathJoin(ConfigNodes(config.val)[i].node.path, Foreign)) IN
       /\ IsOk(made)
       /\ made.at \notin DOMAIN files
       /\ SetFS(WriteAllIn(made.fs, made.at, Scribbled))
    /\ nCalls' = nCalls + 1
    /\ UNCHANGED <<configDir, stores, last, written, latest, procs, dataDir, config, writer,
                   project, history, held>>

\* The caller takes the result of a call on the tree.
ReturnTree ==
    /\ last # NoCall
    /\ last' = NoCall
    /\ writer' = Idle
    /\ UNCHANGED <<configDir, dirs, files, inodes, stores, written, latest, nCalls, procs,
                   dataDir, config, project, history, held>>

InitTree ==
    /\ configDir = Some(ConfigHome)
    /\ dataDir \in {None, Some(DataHome)}
    /\ dirs = {<<>>, <<<<"c">>>>, <<<<"d">>>>}
    /\ files = <<>>
    /\ inodes = <<>>
    /\ stores = {}
    /\ last = NoCall
    /\ written = {}
    /\ latest = <<>>
    /\ nCalls = 0
    /\ procs = <<>>
    /\ config = None
    /\ writer = Idle
    /\ project = None
    /\ history = NoHistory
    /\ held = None

NextTree ==
    \/ ConfigNew(AppName)
    \/ \E str \in ConfigAuthors : ConfigSetField("author", str)
    \/ \E str \in ConfigVersions : ConfigSetField("version", str)
    \/ \E str \in ConfigAbouts : ConfigSetField("about", str)
    \/ \E element \in Shapes : ConfigAdd(element)
    \/ Write
    \/ \E fault \in WriteFaults : WriteElement(fault)
    \/ \E fault \in WriteFaults : WriteSelf(fault)
    \/ Clear
    \/ IsWritten
    \/ Current(AppName)
    \/ CurrentDevmode
    \/ \E i \in 1..(4 * MaxElements + 2) : Scribble(i)
    \/ \E i \in 1..(4 * MaxElements + 2) : Litter(i)
    \/ ReturnTree

SpecTree == InitTree /\ [][NextTree]_vars

----------------------------------------------------------------------------
(* Properties of the element tree and of the tree writer.                  *)

\* The tree the application holds, node by node, and its base path.
Nodes == IF config = None THEN <<>> ELSE ConfigNodes(config.val)
BasePath == ConfigBasePath(dataDir, config.val.name)

\* C13: in every Config built by Config::new and add, the path of every node
\* but the root is its parent's path joined with its own name, at every
\* depth, and the root's path is the base path of the application.
C13_PathInvariant ==
    \A i \in 1..Len(Nodes) :
        IF Nodes[i].parent = None
        THEN SamePath(Nodes[i].node.path, BasePath)
        ELSE SamePath(Nodes[i].node.path,
                      PathJoin(Nodes[i].parent.val.path, Nodes[i].node.name))

\* C13 witness: a tree with a file four levels under the root.
C13_Witness ==
    \E i \in 1..Len(Nodes) :
        /\ Nodes[i].node.name = <<"t">>
        /\ Nodes[i].parent # None
        /\ Nodes[i].parent.val.name = <<"j">>
        /\ Nodes[i].node.path = BasePath \o <<"/", "g", "/", "h", "/", "j", "/", "t">>

\* What is at the path of a node, in the filesystem fs.
NodeStat(fs, element) == StatIn(fs.dirs, fs.files, element.path)
\* Whether it is a directory, a file or nothing.
OnDisk(fs, element) ==
    IF NodeStat(fs, element).kind \in {"dir", "file"} THEN NodeStat(fs, element).kind ELSE "none"
\* The resolved paths of the nodes that are on disk.
NodePlaces(fs) ==
    {NodeStat(fs, Nodes[i].node).at :
        i \in {k \in 1..Len(Nodes) : NodeStat(fs, Nodes[k].node).kind \in {"dir", "file"}}}

\* C14: after a write that succeeded, every Directory node is a directory,
\* every File node is a regular file, and everything the write created is
\* at the path of a node.
C14_ExactlyTheNodes ==
    (last.op = "write" /\ IsOk(last.res)) =>
        /\ \A i \in 1..Len(Nodes) :
              NodeStat(FS, Nodes[i].node).kind
                = IF Nodes[i].node.element_type = "Directory" THEN "dir" ELSE "file"
        /\ (dirs \ writer.before.dirs) \subseteq NodePlaces(FS)
        /\ (DOMAIN files \ DOMAIN writer.before.files) \subseteq NodePlaces(FS)

\* The calls of Element::write of the write in progress, and the elements
\* the calls made so far were for.
Order == WriteOrder(config.val)
WrittenSoFar == {Order[k] : k \in 1..writer.pc}
\* The parent of an element of the tree (None for the root).
ParentNode(element) ==
    Nodes[CHOOSE i \in 1..Len(Nodes) : Nodes[i].node = element].parent

\* C15: whenever the traversal is about to write a node, the node's parent
\* has been written by this traversal and is a directory on disk, and the
\* siblings declared before the node have been written.
C15_WriteOrder ==
    (writer.active /\ writer.pc < Len(Order) /\ ParentNode(Order[writer.pc + 1]) # None) =>
        LET element == Order[writer.pc + 1]
            parent == ParentNode(element).val
        IN /\ parent \in WrittenSoFar
           /\ NodeStat(FS, parent).kind = "dir"
           /\ \E i \in 1..Len(parent.children) :
                 /\ parent.children[i] = element
                 /\ \A j \in 1..(i - 1) : parent.children[j] \in WrittenSoFar

\* C15 witness: the file four levels down is about to be written, after
\* app.toml, the sibling declared before its ancestor.
C15_Witness ==
    /\ writer.active
    /\ writer.pc < Len(Order)
    /\ Order[writer.pc + 1].name = <<"t">>
    /\ ParentNode(Order[writer.pc + 1]).val.name = <<"j">>
    /\ Order[2].name = AppToml

\* The text a file node is declared with: its serialized content, or nothing.
DeclaredText(element) ==
    IF element.content # None /\ element.element_format # None
    THEN ConfigSerialize(element.element_format.val, element.content.val).text
    ELSE <<>>
\* The text of a file in the filesystem fs (NoText when there is no file).
NoText == <<"no file">>
TextAt(fs, at) == IF at \in DOMAIN fs.files THEN fs.inodes[fs.files[at]] ELSE NoText
\* The text of the self-description in the filesystem fs.
SelfText(fs) ==
    LET st == StatIn(fs.dirs, fs.files, PathJoin(dataDir.val, SelfPath(config.val.name))) IN
    IF st.kind = "file" THEN TextAt(fs, st.at) ELSE NoText
\* The I/O errors of the failures the runs inject.
InjectedIo == {"PermissionDenied", "StorageFull"}
\* The resolved paths of the File nodes, on the filesystem fs.
FilePlaces(fs) ==
    {NodeStat(fs, Nodes[i].node).at :
        i \in {k \in 1..Len(Nodes) : /\ Nodes[k].node.element_type = "File"
                                     /\ NodeStat(fs, Nodes[k].node).kind = "file"}}

\* C16: a write of a tree that the last write put on disk fails only when a
\* system call fails; when it succeeds every directory that was there is
\* there, every file that is not a file node is as it was, every file node
\* holds its declared text (nothing, when it has no content and format) and
\* app.toml holds the self-description.
C16_Rerun ==
    (last.op = "write" /\ writer.rerun) =>
        /\ IsOk(last.res) \/ last.res.io \in InjectedIo
        /\ IsOk(last.res) =>
              /\ writer.before.dirs \subseteq dirs
              /\ \A at \in DOMAIN writer.before.files \ FilePlaces(FS) :
                    TextAt(FS, at) = TextAt(writer.before, at)
              /\ \A i \in 1..Len(Nodes) :
                    (Nodes[i].node.element_type = "File" /\ Nodes[i].node.name # AppToml)
                    => TextAt(FS, NodeStat(FS, Nodes[i].node).at) = DeclaredText(Nodes[i].node)
              /\ SelfText(FS) = ConfigToml(config.val)

\* C16 witness: a second write has succeeded on a tree in which another
\* program had written into a file node.
C16_Witness ==
    /\ last.op = "write"
    /\ writer.rerun
    /\ IsOk(last.res)
    /\ \E at \in FilePlaces(FS) : TextAt(writer.before, at) = Scribbled

\* C17: when Element::write fails for a node, Config::write returns the
\* error; the nodes written before it (at another path than the node's own)
\* are on disk as written, the nodes after it are as they were before the
\* write, and app.toml does not hold the self-description unless it held it
\* before.
C17_AbortNoRollback ==
    (last.op = "write" /\ ~IsOk(last.res) /\ last.node <= Len(Order)) =>
        LET earlier == {Order[k].path : k \in 1..last.node} IN
        /\ \A k \in 1..(last.node - 1) :
              ~SamePath(Order[k].path, Order[last.node].path) =>
                 IF Order[k].element_type = "Directory"
                 THEN NodeStat(FS, Order[k]).kind = "dir"
                 ELSE /\ NodeStat(FS, Order[k]).kind = "file"
                      /\ TextAt(FS, NodeStat(FS, Order[k]).at) = DeclaredText(Order[k])
        /\ \A k \in (last.node + 1)..Len(Order) :
              Order[k].path \notin earlier =>
                 /\ OnDisk(FS, Order[k]) = OnDisk(writer.before, Order[k])
                 /\ NodeStat(FS, Order[k]).kind = "file" =>
                       TextAt(FS, NodeStat(FS, Order[k]).at)
                         = TextAt(writer.before, NodeStat(FS, Order[k]).at)
        /\ SelfText(FS) \in {NoText, <<>>, SelfText(writer.before)}

\* C17 witness: the write failed at a node with nodes written before it and
\* nodes left after it.
C17_Witness ==
    /\ last.op = "write"
    /\ ~IsOk(last.res)
    /\ last.node > 2
    /\ last.node < Len(Order)
    /\ \E k \in (last.node + 1)..Len(Order) : NodeStat(FS, Order[k]).kind = "none"

\* C18: from a clear that succeeded until the next write, is_written() is
\* false; from a write that succeeded until the next clear, is_written() is
\* true.
C18_IsWritten ==
    (config # None /\ ~writer.active) =>
        /\ history.phase = "cleared" => ~IsWrittenIn(FS, dataDir, config.val)
        /\ history.phase = "written" => IsWrittenIn(FS, dataDir, config.val)

\* C19: after a write that succeeded, with no write since, current returns a
\* Config with the name, author, version and about of the Config written.
C19_SelfDescription ==
    (last.op \in {"current", "current()"} /\ history.phase = "written" /\ ~history.again) =>
        last.res = Some([f \in {"name", "author", "version", "about"} |-> config.val[f]])

----------------------------------------------------------------------------
(* Confinement and independence of the keys of a store.                    *)

\* The path resolves to an entry directly inside the directory of store c.
DirectChild(c, path) ==
    LET d == Stat(c)
        st == Stat(path)
    IN /\ d.kind = "dir"
       /\ st.kind \in {"file", "dir"}
       /\ Len(st.at) = Len(d.at) + 1
       /\ SubSeq(st.at, 1, Len(d.at)) = d.at

\* C22: for every key, every key-taking operation either returns InvalidName
\* or touches only a direct child of the store's directory: a set or
\* set_plain that succeeds writes a direct child, and a has that answers
\* true, a get or a get_plain that returns a value has read a direct child.
C22_KeyConfinement ==
    /\ (last.op \in {"set", "set_plain"} /\ IsOk(last.res))
       => /\ Stat(last.store).kind = "dir"
          /\ Len(last.at) = Len(Stat(last.store).at) + 1
          /\ SubSeq(last.at, 1, Len(Stat(last.store).at)) = Stat(last.store).at
    /\ (last.op = "has" /\ last.res.found)
       => DirectChild(last.store, PathJoin(last.store, HasName(last.key, last.fmt)))
    /\ (last.op = "get" /\ IsOk(last.res))
       => DirectChild(last.store, KeyPath(last.store, last.key, last.fmt).path)
    /\ (last.op = "get_plain" /\ IsOk(last.res))
       => DirectChild(last.store, PathJoin(last.store, last.key))

\* Keys of one component each, one of them spelled like the file of another.
PairKeys == {<<"a">>, <<"b">>, <<"b", Dot>> \o FileTypeDisplay("Toml")}

\* An application that uses one store with keys of every format.
NextPairs ==
    \/ New(AppName, 1, None)
    \/ \E c \in stores, key \in PairKeys, ft \in FileType : Has(c, key, ft)
    \/ \E c \in stores, key \in PairKeys, ft \in TypedFormats : Get(c, key, ft)
    \/ \E c \in stores, key \in PairKeys : GetPlain(c, key)
    \/ \E c \in stores, key \in PairKeys, ft \in TypedFormats, v \in Values : Set(c, key, ft, v)
    \/ \E c \in stores, key \in PairKeys, text \in Texts : SetPlain(c, key, text)
    \/ Return

SpecPairs == Init /\ [][NextPairs]_vars

\* What has and get (get_plain for Plain) answer for the pair (k, f) of store
\* c in the filesystem fs.
ObservePair(fs, c, k, f) ==
    <<HasKeyIn(fs, c, k, f),
      IF f = "Plain" THEN GetPlainCallIn(fs, c, k) ELSE GetCallIn(fs, c, k, f)>>

\* C26: a set(k, f, v) or set_plain(k, s) that succeeds leaves what has and
\* get return for every other pair (k', f') of the same store as it was.
C26_PairsIndependent ==
    [][(/\ last = NoCall
        /\ last'.op \in {"set", "set_plain"}
        /\ IsOk(last'.res))
       => \A k \in PairKeys, f \in FileType :
             <<k, f>> # <<last'.key, last'.fmt>>
             => ObservePair(FS', last'.store, k, f) = ObservePair(FS, last'.store, k, f)]_vars

----------------------------------------------------------------------------
(* The files of a project (src/src/file.rs, src/src/format.rs, and         *)
(* Project::add_files and Project::get_file of src/src/project.rs).        *)

\* enum FileFormat
FileFormat == {"Plain", "Toml", "Json"}

\* FileFormat::extension
extension(format) == IF format = "Plain" THEN <<>> ELSE <<Dot>> \o FileTypeDisplay(format)

\* File::new(name): the format is TOML, the content is empty.
FileNew(name) == [name |-> name, path |-> <<>>, format |-> "Toml", content |-> <<>>]

\* File::set_format
set_format(file, format) == [file EXCEPT !.format = format]

\* set_content with a fault: a Plain file takes the value as JSON.
set_content_json(file, v) ==
    LET data == IF file.format = "Toml" THEN TomlToString(v) ELSE JsonToString(v) IN
    IF IsOk(data) THEN [tag |-> "Ok", file |-> [file EXCEPT !.content = data.text]]
    ELSE data

\* File::set_content: the value serialized in the file's format becomes the
\* content; the Plain arm does nothing.
set_content(file, v) ==
    IF file.format = "Plain" THEN [tag |-> "Ok", file |-> file]
    ELSE LET data == IF file.format = "Toml" THEN TomlToString(v) ELSE JsonToString(v) IN
         IF IsOk(data) THEN [tag |-> "Ok", file |-> [file EXCEPT !.content = data.text]]
         ELSE data

\* File::set_text: the text becomes the content of a Plain file; the TOML
\* and JSON arm does nothing.
set_text(file, text) ==
    IF file.format = "Plain" THEN [tag |-> "Ok", file |-> [file EXCEPT !.content = text]]
    ELSE [tag |-> "Ok", file |-> file]

\* File::write in the filesystem fs: File::create(path)?.write_all(content)
FileWriteIn(fs, file) ==
    LET made == FileCreateIn(fs, file.path) IN
    IF ~IsOk(made) THEN [res |-> IoError(made.io), fs |-> fs]
    ELSE [res |-> [tag |-> "Ok"], fs |-> WriteAllIn(made.fs, made.at, file.content)]

\* Project::add_files with one file: its path is the data directory joined
\* with the name and the extension of its format; when nothing is there,
\* place_data_file makes the directories leading to it and the file is
\* written.
AddFileIn(fs, dd, rec, file) ==
    LET pd == ProjectDataDir(dd, rec.application) IN
    IF pd = None THEN [res |-> [tag |-> "Err", kind |-> "NoProjectDirectory"], fs |-> fs]
    ELSE LET name == file.name \o extension(file.format)
             placed == [file EXCEPT !.path = PathJoin(pd.val, name)]
             parent == PathParent(placed.path)
             made == IF parent = None THEN [tag |-> "Ok", fs |-> fs]
                     ELSE CreateDirAllIn(fs, parent.val)
         IN IF ExistsIn(fs, placed.path) THEN [res |-> [tag |-> "Ok"], fs |-> fs]
            ELSE IF ~IsOk(made) THEN [res |-> IoError(made.io), fs |-> fs]
            ELSE FileWriteIn(made.fs, placed)

\* str::contains
Contains(str, sub) ==
    \E i \in 0..(Len(str) - Len(sub)) : SubSeq(str, i + 1, i + Len(sub)) = sub

\* The text of a resolved path.
RECURSIVE PathText(_)
PathText(at) == IF at = <<>> THEN <<>> ELSE <<Slash>> \o Head(at) \o PathText(Tail(at))

\* The entries walkdir::WalkDir::new(root) yields: the root and everything
\* under it, directories and files; nothing when the root does not exist.
WalkDir(fs, root) ==
    LET st == StatIn(fs.dirs, fs.files, root) IN
    IF st.kind \notin {"dir", "file"} \/ st.at = <<>> THEN {}
    ELSE {at \in fs.dirs \cup DOMAIN fs.files : IsPrefix(st.at, at)}

\* DirEntry::file_name
file_name(at) == at[Len(at)]

\* Project::get_file in the filesystem fs: the entries whose name contains
\* `name` and contains the extension of the format, each read with
\* read_to_string(..).unwrap(); one entry is the result, any other number is
\* the error "Could not find the file".
GetFileIn(fs, dd, rec, name, format) ==
    LET pd == ProjectDataDir(dd, rec.application) IN
    IF pd = None THEN [tag |-> "Err", kind |-> "NoProjectDirectory"]
    ELSE LET found == {at \in WalkDir(fs, pd.val) :
                          /\ Contains(file_name(at), name)
                          /\ Contains(file_name(at), extension(format))}
         IN IF \E at \in found : at \in fs.dirs THEN Panic
            ELSE IF Cardinality(found) = 1
            THEN LET at == CHOOSE at \in found : TRUE IN
                 [tag |-> "Ok", file |-> [name |-> file_name(at), path |-> PathText(at),
                                          format |-> format,
                                          content |-> fs.inodes[fs.files[at]]]]
            ELSE [tag |-> "Err", kind |-> "CouldNotFind"]

\* The names, values and texts the application uses for its files.
FileNames == {<<"s">>, <<"s", "e">>}
FindNames == {<<"s">>, <<"s", "e">>, <<"o">>, <<"a">>}
FileValues == {Red}
FileTexts == {<<"h", "i">>}

\* new_file!(name).set_format(format)
FileNewAs(name, format) ==
    /\ last = NoCall
    /\ held = None
    /\ held' = Some(set_format(FileNew(name), format))
    /\ UNCHANGED <<configDir, dirs, files, inodes, stores, last, written, latest, nCalls,
                   procs, dataDir, config, writer, project, history>>

\* file.set_content(v)
FileSetContent(v) ==
    /\ last = NoCall
    /\ held # None
    /\ LET r == set_content(held.val, v) IN
       /\ held' = IF IsOk(r) THEN Some(r.file) ELSE held
       /\ last' = [op |-> "set_content", file |-> held.val, res |-> r]
    /\ UNCHANGED <<configDir, dirs, files, inodes, stores, written, latest, nCalls,
                   procs, dataDir, config, writer, project, history>>

\* file.set_text(s)
FileSetText(text) ==
    /\ last = NoCall
    /\ held # None
    /\ LET r == set_text(held.val, text) IN
       /\ held' = IF IsOk(r) THEN Some(r.file) ELSE held
       /\ last' = [op |-> "set_text", file |-> held.val, text |-> text, res |-> r]
    /\ UNCHANGED <<configDir, dirs, files, inodes, stores, written, latest, nCalls,
                   procs, dataDir, config, writer, project, history>>

\* project.add_files(&[file]): the descriptor is handed over.
AddFiles ==
    /\ last = NoCall
    /\ nCalls < MaxCalls
    /\ project # None
    /\ held # None
    /\ LET r == AddFileIn(FS, dataDir, project.val, held.val) IN
       /\ SetFS(r.fs)
       /\ last' = [op |-> "add_files", file |-> held.val, res |-> r.res]
    /\ held' = None
    /\ nCalls' = nCalls + 1
    /\ UNCHANGED <<configDir, stores, written, latest, procs, dataDir, config, writer,
                   project, history>>

\* project.get_file(name, format): the application holds the descriptor.
GetFile(name, format) ==
    /\ last = NoCall
    /\ project # None
    /\ LET r == GetFileIn(FS, dataDir, project.val, name, format) IN
       /\ held' = IF IsOk(r) THEN Some(r.file) ELSE held
       /\ last' = [op |-> "get_file", name |-> name, format |-> format, res |-> r]
    /\ UNCHANGED <<configDir, dirs, files, inodes, stores, written, latest, nCalls,
                   procs, dataDir, config, writer, project, history>>

\* file.write()
FileWrite ==
    /\ last = NoCall
    /\ nCalls < MaxCalls
    /\ held # None
    /\ LET r == FileWriteIn(FS, held.val) IN
       /\ SetFS(r.fs)
       /\ last' = [op |-> "File::write", file |-> held.val, res |-> r.res]
    /\ nCalls' = nCalls + 1
    /\ UNCHANGED <<configDir, stores, written, latest, procs, dataDir, config, writer,
                   project, history, held>>

\* The descriptor goes out of scope.
FileDrop ==
    /\ last = NoCall
    /\ held # None
    /\ held' = None
    /\ UNCHANGED <<configDir, dirs, files, inodes, stores, last, written, latest, nCalls,
                   procs, dataDir, config, writer, project, history>>

\* An application that registers itself, adds files to its project, finds
\* them again and changes them.
NextFiles ==
    \/ ProjectNew(Qualifier, Organization, Application, "none")
    \/ \E name \in FileNames, format \in FileFormat : FileNewAs(name, format)
    \/ \E v \in FileValues : FileSetContent(v)
    \/ \E text \in FileTexts : FileSetText(text)
    \/ AddFiles
    \/ \E name \in FindNames, format \in FileFormat : GetFile(name, format)
    \/ FileWrite
    \/ FileDrop
    \/ Return

SpecFiles == InitProject /\ [][NextFiles]_vars

----------------------------------------------------------------------------
(* Properties of the files of a project.                                   *)

\* Path::extension of a file name: what follows the last dot, when there is
\* a dot after the first character; nothing otherwise.
ExtensionOf(name) ==
    LET dots == {i \in 2..Len(name) : name[i] = Dot} IN
    IF dots = {} THEN <<>>
    ELSE LET i == CHOOSE i \in dots : \A j \in dots : j <= i IN SubSeq(name, i + 1, Len(name))

\* The regular files of the project directory tree whose name contains
\* `name` and whose extension is the one of the format (none for Plain).
Matching(name, format) ==
    {at \in WalkDir(FS, ProjectDataDir(dataDir, project.val.application).val) :
        /\ at \in DOMAIN files
        /\ Contains(file_name(at), name)
        /\ ExtensionOf(file_name(at)) = FileTypeDisplay(format)}

\* C21: get_file(name, format) returns a descriptor exactly when one file of
\* the project directory tree has a name containing `name` and the extension
\* of the format, and the descriptor is of that file; with no such file it
\* fails as not found, and with more than one it fails with another error,
\* as ambiguous.
C21_GetFile ==
    (last.op = "get_file" /\ dataDir # None) =>
        LET found == Matching(last.name, last.format) IN
        /\ IsOk(last.res) <=> Cardinality(found) = 1
        /\ IsOk(last.res) => \E at \in found : last.res.file.path = PathText(at)
        /\ Cardinality(found) = 0 => last.res = [tag |-> "Err", kind |-> "CouldNotFind"]
        /\ Cardinality(found) > 1 => (IsErr(last.res) /\ last.res.kind # "CouldNotFind")

\* C30: set_content on a Plain File returns Ok and leaves the content as it
\* was, for every value; set_text on a TOML or JSON File returns Ok and
\* leaves the content as it was, and on a Plain File it makes the content
\* exactly the text.
C30_PlainNoOp ==
    /\ (last.op = "set_content" /\ last.file.format = "Plain")
       => /\ IsOk(last.res)
          /\ last.res.file = last.file
          /\ held = Some(last.file)
    /\ last.op = "set_text"
       => /\ IsOk(last.res)
          /\ held = Some(last.res.file)
          /\ last.res.file = IF last.file.format = "Plain"
                             THEN [last.file EXCEPT !.content = last.text]
                             ELSE last.file

\* C30 witness: set_content on a Plain File that holds a text.
C30_Witness ==
    /\ last.op = "set_content"
    /\ last.file.format = "Plain"
    /\ last.file.content = <<"h", "i">>
    /\ held.val.content = <<"h", "i">>

----------------------------------------------------------------------------
(* Properties of one traversal of the tree writer.                         *)

\* The calls of Element::write the traversal has made so far.
WritesMade == IF writer.pc < Len(Order) THEN writer.pc ELSE Len(Order)

\* C25: during one Config::write, Element::write is called once for every
\* node of the tree: no two calls of the traversal are for the same path.
C25_OncePerNode ==
    (config # None /\ writer # Idle)
    => \A i, j \in 1..WritesMade :
          i # j => ~SamePath(Order[i].path, Order[j].path)

----------------------------------------------------------------------------
(* Building a tree before it is added: Element of src/src/element.rs, with *)
(* children: Option<Vec<Element>>, and Element of utils/config/mod.rs and  *)
(* utils/conf/config.rs, with format: Format and children: Vec<Element>.   *)

\* Element::new of element.rs
ElementNew(name) ==
    [name |-> name, path |-> <<>>, element_type |-> "File", element_format |-> None,
     content |-> None, children |-> None]

\* Element::set_type
set_type(element, element_type) == [element EXCEPT !.element_type = element_type]

\* new_file!(name), new_dir!(name)
new_file(name) == set_type(ElementNew(name), "File")
new_dir(name) == set_type(ElementNew(name), "Directory")

\* The fields of Element are pub: a struct literal with children: Some(vec![]).
ElementLiteral(name, element_type) ==
    [ElementNew(name) EXCEPT !.element_type = element_type, !.children = Some(<<>>)]

\* Element::add_child
add_child(element, child) ==
    IF element.children # None
    THEN [element EXCEPT !.children = Some(Append(@.val, child))]
    ELSE element

\* Element::new of utils/config/mod.rs and of utils/conf/config.rs
FormatElementNew(name) ==
    [name |-> name, path |-> <<>>, format |-> "Directory", children |-> <<>>]

\* Element::format
format(element, fmt) == [element EXCEPT !.format = fmt]

\* Element::child
child(element, c) == [element EXCEPT !.children = Append(@, c)]

\* fi!(name), dir!(name)
fi(name) == format(FormatElementNew(name), "File")
dir(name) == format(FormatElementNew(name), "Directory")

\* Config::new().name(name) of utils/conf/config.rs: the Config, then add
\* of Element::new("").
ConfAdd(dd, cfg, element) ==
    LET placed == IF element.name = <<>>
                  THEN [set_path(element, PathJoin(dd.val, cfg.name)) EXCEPT !.name = cfg.name]
                  ELSE set_path(element, ConfigBasePath(dd, cfg.name))
        filled == [placed EXCEPT !.children =
                      [i \in DOMAIN placed.children |->
                          fill_paths(set_path(placed.children[i], placed.path))]]
    IN [cfg EXCEPT !.elements = Append(@, filled)]
ConfName(dd, name) ==
    ConfAdd(dd,
            [name |-> name, author |-> <<>>, version |-> <<>>, about |-> <<>>,
             elements |-> <<>>],
            FormatElementNew(<<>>))

\* Which Element a value is, and which Config.
IsFormatElement(element) == "format" \in DOMAIN element
IsConf(cfg) == IsFormatElement(cfg.elements[1])

\* The children of an Element of element.rs.
ChildrenOf(element) == IF element.children = None THEN <<>> ELSE element.children.val

\* Children an element holds at most while it is built.
MaxChildren == 2

\* The names, the paths and the children the application builds with.
BuildNames == {<<"g">>, <<>>}
BuildPaths == {<<"/", "p">>}
ChildElements ==
    {new_file(<<"t">>), new_dir(<<"h">>),
     add_child(ElementLiteral(<<"h">>, "Directory"), new_file(<<"t">>))}
FormatChildren == {fi(<<"t">>), child(dir(<<"h">>), fi(<<"t">>))}

\* Element::new(name) of element.rs, or a struct literal
BuildNew(name) ==
    /\ last = NoCall
    /\ held = None
    /\ held' = Some(ElementNew(name))
    /\ UNCHANGED <<configDir, dirs, files, inodes, stores, last, written, latest, nCalls,
                   procs, dataDir, config, writer, project, history>>
BuildLiteral(name, element_type) ==
    /\ last = NoCall
    /\ held = None
    /\ held' = Some(ElementLiteral(name, element_type))
    /\ UNCHANGED <<configDir, dirs, files, inodes, stores, last, written, latest, nCalls,
                   procs, dataDir, config, writer, project, history>>

\* element.set_type(element_type)
BuildSetType(element_type) ==
    /\ last = NoCall
    /\ held # None
    /\ ~IsFormatElement(held.val)
    /\ held.val.element_type # element_type
    /\ held' = Some(set_type(held.val, element_type))
    /\ UNCHANGED <<configDir, dirs, files, inodes, stores, last, written, latest, nCalls,
                   procs, dataDir, config, writer, project, history>>

\* element.set_path(path)
BuildSetPath(path) ==
    /\ last = NoCall
    /\ held # None
    /\ ~IsFormatElement(held.val)
    /\ held.val.path = <<>>
    /\ held' = Some(set_path(held.val, path))
    /\ UNCHANGED <<configDir, dirs, files, inodes, stores, last, written, latest, nCalls,
                   procs, dataDir, config, writer, project, history>>

\* element.add_child(c)
BuildAddChild(c) ==
    /\ last = NoCall
    /\ held # None
    /\ ~IsFormatElement(held.val)
    /\ Len(ChildrenOf(held.val)) < MaxChildren
    /\ held' = Some(add_child(held.val, c))
    /\ last' = [op |-> "add_child", parent |-> held.val, child |-> c,
                res |-> [tag |-> "Ok"]]
    /\ UNCHANGED <<configDir, dirs, files, inodes, stores, written, latest, nCalls, procs,
                   dataDir, config, writer, project, history>>

\* Element::new(name) of utils/config/mod.rs and utils/conf/config.rs
BuildFormatNew(name) ==
    /\ last = NoCall
    /\ held = None
    /\ held' = Some(FormatElementNew(name))
    /\ UNCHANGED <<configDir, dirs, files, inodes, stores, last, written, latest, nCalls,
                   procs, dataDir, config, writer, project, history>>

\* element.format(fmt)
BuildFormat(fmt) ==
    /\ last = NoCall
    /\ held # None
    /\ IsFormatElement(held.val)
    /\ held.val.format # fmt
    /\ held' = Some(format(held.val, fmt))
    /\ UNCHANGED <<configDir, dirs, files, inodes, stores, last, written, latest, nCalls,
                   procs, dataDir, config, writer, project, history>>

\* element.child(c)
BuildChild(c) ==
    /\ last = NoCall
    /\ held # None
    /\ IsFormatElement(held.val)
    /\ Len(held.val.children) < MaxChildren
    /\ held' = Some(child(held.val, c))
    /\ last' = [op |-> "child", parent |-> held.val, child |-> c, res |-> [tag |-> "Ok"]]
    /\ UNCHANGED <<configDir, dirs, files, inodes, stores, written, latest, nCalls, procs,
                   dataDir, config, writer, project, history>>

\* Config::new().name(name) of utils/conf/config.rs: data() is an expect().
BuildConfName(name) ==
    /\ last = NoCall
    /\ config = None
    /\ config' = IF dataDir = None THEN None ELSE Some(ConfName(dataDir, name))
    /\ last' = [op |-> "name", res |-> IF dataDir = None THEN Panic ELSE [tag |-> "Ok"]]
    /\ UNCHANGED <<configDir, dirs, files, inodes, stores, written, latest, nCalls, procs,
                   dataDir, writer, project, history, held>>

\* config.add(element) of utils/conf/config.rs with the element built
BuildConfAdd ==
    /\ last = NoCall
    /\ config # None
    /\ IsConf(config.val)
    /\ held # None
    /\ IsFormatElement(held.val)
    /\ Len(config.val.elements) <= MaxElements
    /\ config' = Some(ConfAdd(dataDir, config.val, held.val))
    /\ held' = None
    /\ last' = [op |-> "add", element |-> held.val, res |-> [tag |-> "Ok"]]
    /\ UNCHANGED <<configDir, dirs, files, inodes, stores, written, latest, nCalls, procs,
                   dataDir, writer, project, history>>

\* config.add(element) of config.rs
BuildConfigAdd(element) ==
    /\ config # None
    /\ ~IsConf(config.val)
    /\ ConfigAdd(element)

\* The element built is dropped.
BuildDrop ==
    /\ last = NoCall
    /\ held # None
    /\ held' = None
    /\ UNCHANGED <<configDir, dirs, files, inodes, stores, last, written, latest, nCalls,
                   procs, dataDir, config, writer, project, history>>

NextBuild ==
    \/ \E name \in BuildNames : BuildNew(name)
    \/ \E name \in BuildNames, element_type \in {"File", "Directory"} :
          BuildLiteral(name, element_type)
    \/ \E element_type \in {"File", "Directory"} : BuildSetType(element_type)
    \/ \E path \in BuildPaths : BuildSetPath(path)
    \/ \E c \in ChildElements : BuildAddChild(c)
    \/ \E name \in BuildNames : BuildFormatNew(name)
    \/ \E fmt \in {"File", "Directory"} : BuildFormat(fmt)
    \/ \E c \in FormatChildren : BuildChild(c)
    \/ ConfigNew(AppName)
    \/ \E element \in Shapes : BuildConfigAdd(element)
    \/ BuildConfName(AppName)
    \/ BuildConfAdd
    \/ BuildDrop
    \/ Return

SpecBuild == InitTree /\ [][NextBuild]_vars

----------------------------------------------------------------------------
(* Properties of the trees that are built.                                 *)

\* C23: add_child on a Directory built with Element::new and set_type, or
\* with new_dir!, returns the parent with the child appended after the
\* children it had, which keep their order.
C23_AddChildAppends ==
    (last.op = "add_child" /\ last.parent.element_type = "Directory")
    => held = Some([last.parent EXCEPT
                       !.children = Some(Append(ChildrenOf(last.parent), last.child))])

\* The path of an element and of everything under it follows from the path
\* of its parent.
RECURSIVE PathsFollow(_, _)
PathsFollow(path, element) ==
    /\ SamePath(element.path, PathJoin(path, element.name))
    /\ \A i \in DOMAIN ChildrenOf(element) : PathsFollow(element.path, ChildrenOf(element)[i])

\* C24: right after add_child on a directory whose path is set, the child is
\* the last child of the parent, its path is the parent's path joined with
\* its name, and so is the path of every element under it.
C24_PathOnAttach ==
    (last.op = "add_child" /\ last.parent.element_type = "Directory"
        /\ last.parent.path # <<>>)
    => LET cs == ChildrenOf(held.val) IN
       /\ cs # <<>>
       /\ cs[Len(cs)].name = last.child.name
       /\ PathsFollow(held.val.path, cs[Len(cs)])

\* Whether an element is a file, and whether no file under an element of
\* element.rs has children.
IsFile(element) ==
    IF IsFormatElement(element) THEN element.format = "File"
    ELSE element.element_type = "File"
RECURSIVE FilesAreLeaves(_)
FilesAreLeaves(element) ==
    /\ IsFile(element) => ChildrenOf(element) = <<>>
    /\ \A i \in DOMAIN ChildrenOf(element) : FilesAreLeaves(ChildrenOf(element)[i])

\* C28: in the element that is built and in the Config it is added to, an
\* element that is a file has no children.
C28_FileHasNoChildren ==
    /\ held # None
       => IF IsFormatElement(held.val)
          THEN \A k \in DOMAIN NodesUnder(held.val, None) :
                  LET n == NodesUnder(held.val, None)[k].node IN
                  IsFile(n) => n.children = <<>>
          ELSE FilesAreLeaves(held.val)
    /\ config # None
       => \A e \in DOMAIN config.val.elements :
             \A k \in DOMAIN NodesUnder(config.val.elements[e], None) :
                LET n == NodesUnder(config.val.elements[e], None)[k].node IN
                IsFile(n) => n.children = <<>>

\* An element is at the base path of its Config and its children are right
\* under the base path.
AtBasePath(element) ==
    /\ SamePath(element.path, BasePath)
    /\ \A i \in DOMAIN element.children :
          /\ SamePath(element.children[i].path, PathJoin(BasePath, element.children[i].name))
          /\ Len(Components(element.children[i].path))
                = Len(Components(BasePath)) + Len(Components(element.children[i].name))

\* C29: the root of a Config, declared with the empty name, is at the base
\* path of the Config (the data directory joined with the name of the
\* Config) and the path of each of its children is the base path joined
\* with the name of the child; so is every element added to a Config of
\* utils/conf/config.rs with the empty name.
C29_EmptyNameIsBase ==
    config # None
    => /\ AtBasePath(config.val.elements[1])
       /\ (last.op = "add" /\ last.element.name = <<>>)
          => AtBasePath(config.val.elements[Len(config.val.elements)])

\* C29 witness: an element with the empty name and a child is added to a
\* Config of utils/conf/config.rs, after the root.
C29_Witness ==
    /\ config # None
    /\ IsConf(config.val)
    /\ last.op = "add"
    /\ last.element.name = <<>>
    /\ last.element.children # <<>>
    /\ Len(config.val.elements) = 2

----------------------------------------------------------------------------
(* The files of a tree read and written one by one: Config::get and        *)
(* Config::set (config.rs:221-276, utils/config/mod.rs:144-186).           *)

\* What the BufReader still holds once read_to_end has filled the buffer.
ReaderRest(text) == SubSeq(text, Len(text) + 1, Len(text))

\* The match of Config::get: toml::from_slice(buffer.as_slice()) for TOML,
\* serde_json::from_reader(reader) for JSON.
ConfigParse(fmt, text) ==
    IF fmt = "Toml" THEN TomlFromStr(text) ELSE JsonFromStr(ReaderRest(text))

\* Config::get::<T>(path, format): data() is an expect().
ConfigGetAs(fs, dd, path, fmt) ==
    IF dd = None THEN Panic
    ELSE LET full == PathJoin(dd.val, path)
             data == ReadToStringIn(fs, full)
         IN IF ~ExistsIn(fs, full) \/ ~IsOk(data) THEN None
            ELSE IF ~IsOk(ConfigParse(fmt, data.text)) THEN None
            ELSE Some(ConfigParse(fmt, data.text).value)

\* The paths, under the data directory, and the values the application
\* reads and writes.
AccessPaths == {<<"s">>, <<"u">>}
AccessValues == {Red, Blue, Int7}
AccessFormats == {"Toml", "Json"}

\* Config::set(path, content, format)
ConfigSet(path, content, fmt, fault) ==
    /\ last = NoCall
    /\ nCalls < MaxCalls
    /\ LET r == IF dataDir = None THEN [res |-> Panic, fs |-> FS]
                ELSE ConfigSetIn(FS, dataDir, path, ConfigSerialize(fmt, content), fault)
           at == StatIn(dirs, files, PathJoin(dataDir.val, path)).at
       IN /\ fault # "none" => (~IsOk(r.res) /\ r.res # Panic)
          /\ SetFS(r.fs)
          /\ last' = [op |-> "Config::set", path |-> path, format |-> fmt,
                      content |-> content, res |-> r.res]
          /\ latest' = IF dataDir = None \/ r.fs = FS THEN latest
                       ELSE IF IsOk(r.res)
                            THEN Put(latest, at, [format |-> fmt, content |-> content])
                            ELSE Drop(latest, at)
    /\ nCalls' = nCalls + 1
    /\ UNCHANGED <<configDir, stores, written, procs, dataDir, config, writer, project,
                   history, held>>

\* Config::get(path, format)
ConfigGet(path, fmt) ==
    /\ last = NoCall
    /\ last' = [op |-> "Config::get", path |-> path, format |-> fmt,
                res |-> ConfigGetAs(FS, dataDir, path, fmt)]
    /\ UNCHANGED <<configDir, dirs, files, inodes, stores, written, latest, nCalls, procs,
                   dataDir, config, writer, project, history, held>>

\* Another program writes into a file under the data directory.
ScribbleFile(path) ==
    /\ last = NoCall
    /\ nCalls < MaxCalls
    /\ dataDir # None
    /\ LET st == StatIn(dirs, files, PathJoin(dataDir.val, path)) IN
       /\ st.kind = "file"
       /\ inodes[files[st.at]] # Scribbled
       /\ inodes' = Put(inodes, files[st.at], Scribbled)
       /\ latest' = Drop(latest, st.at)
    /\ nCalls' = nCalls + 1
    /\ UNCHANGED <<configDir, dirs, files, stores, last, written, procs, dataDir, config,
                   writer, project, history, held>>

NextAccess ==
    \/ \E path \in AccessPaths, content \in AccessValues, fmt \in AccessFormats,
          fault \in WriteFaults : ConfigSet(path, content, fmt, fault)
    \/ \E path \in AccessPaths, fmt \in AccessFormats : ConfigGet(path, fmt)
    \/ \E path \in AccessPaths : ScribbleFile(path)
    \/ Return

SpecAccess == InitTree /\ [][NextAccess]_vars

\* The file a call is about, and what the last Config::set that succeeded
\* on it and was not overwritten since has put there.
AccessAt == StatIn(dirs, files, PathJoin(dataDir.val, last.path)).at

\* C27: Config::get(path, format) on a file that a Config::set(path, v,
\* format) that returned Ok has written and nothing has changed since
\* returns Some(v), for TOML and for JSON; it returns None only when the
\* file is not there or its text is not a value in that format.
C27_GetAfterSet ==
    (last.op = "Config::get" /\ dataDir # None)
    => /\ (AccessAt \in DOMAIN latest /\ latest[AccessAt].format = last.format)
          => last.res = Some(latest[AccessAt].content)
       /\ last.res = None
          => LET data == ReadToStringIn(FS, PathJoin(dataDir.val, last.path)) IN
             \/ ~IsOk(data)
             \/ ~IsOk(IF last.format = "Toml" THEN TomlFromStr(data.text)
                      ELSE JsonFromStr(data.text))

============================================================================
